---- MODULE Spec2Model ----
(***************************************************************************)
(* A model of fastapi_bootstrap's metrics engine                           *)
(* (src/src/fastapi_bootstrap/metrics.py): the Counter, Gauge and          *)
(* Histogram primitives, the label-keyed MetricsRegistry with its          *)
(* Prometheus text export, and the MetricsMiddleware request cycle.        *)
(*                                                                         *)
(* Durations and observed values are integers counting thousandths of a    *)
(* second (0.005 s is 5), so sums are exact.  Python objects live in       *)
(* heaps: a primitive is its index in the heap of its type, so "the same   *)
(* instance" is "the same index".  A dict is a sequence of <<key, value>>  *)
(* pairs in insertion order, the order Python's dict iterates in.          *)
(***************************************************************************)
EXTENDS Integers, Sequences, FiniteSets, TLC

\* ------------------------------------------------------------------ bounds
NThreads == 2          \* threads sharing one Counter / one Histogram
MaxIncCalls == 3       \* Counter.inc calls issued in one run
MaxObserve == 3        \* Histogram.observe calls issued in one run
MaxRegistryOps == 4    \* direct calls application code makes on a registry
MaxRequests == 2       \* requests sent to the application in one run

Threads == 1..NThreads

\* ---------------------------------------------------------------- helpers
RECURSIVE SumSeq(_)
SumSeq(s) == IF s = <<>> THEN 0 ELSE Head(s) + SumSeq(Tail(s))

RECURSIVE InsertSorted(_, _)
\* x placed before the first element of the ascending sequence s that exceeds it
InsertSorted(x, s) ==
    IF s = <<>> THEN <<x>>
    ELSE IF x <= Head(s) THEN <<x>> \o s
    ELSE <<Head(s)>> \o InsertSorted(x, Tail(s))

RECURSIVE Sorted(_)
\* Python's sorted() on a sequence of numbers
Sorted(s) == IF s = <<>> THEN <<>> ELSE InsertSorted(Head(s), Sorted(Tail(s)))

\* threading.Lock: 0 is unlocked, otherwise the holder
LockAlwaysFree(holder) == TRUE
LockFree(holder) == holder = 0

\* ---------------------------------------------------------------- Counter
\* inc(value: int = 1): the arguments of a call, <<>> leaving the parameter out
IncArgs == {<<>>, <<2>>, <<5>>}
IncAmount(a) == IF a = <<>> THEN 1 ELSE a[1]

\* -------------------------------------------------------------- Histogram
\* Histogram.buckets, in thousandths of a second
DefaultBuckets == <<5, 10, 25, 50, 100, 250, 500, 1000, 2500, 5000, 10000>>
BucketSet == {DefaultBuckets[i] : i \in DOMAIN DefaultBuckets}

\* a fresh Histogram(): _counts is a defaultdict(int), so every tally reads 0
NewHistogram == [sum |-> 0, count |-> 0, counts |-> [b \in BucketSet |-> 0]]

\* self._sum += value
HistAddSumPositiveOnly(h, v) == IF v < 0 THEN h ELSE [h EXCEPT !.sum = @ + v]
HistAddSum(h, v) == [h EXCEPT !.sum = @ + v]

\* self._count += 1
HistIncCount(h) == [h EXCEPT !.count = @ + 1]

\* for bucket in self.buckets: if value <= bucket: self._counts[bucket] += 1
HistTally(h, v) ==
    [h EXCEPT !.counts = [b \in BucketSet |-> IF v <= b THEN @[b] + 1 ELSE @[b]]]

\* the whole body of observe
HistObserve(h, v) == HistTally(HistIncCount(HistAddSum(h, v)), v)

RECURSIVE CumulativeFrom(_, _, _)
\* the loop of get_bucket_counts over the buckets still to visit, total so far
CumulativeFrom(h, bs, total) ==
    IF bs = <<>> THEN <<>>
    ELSE LET t == total + h.counts[Head(bs)]
         IN  <<<<Head(bs), t>>>> \o CumulativeFrom(h, Tail(bs), t)

\* get_bucket_counts: the returned dict, as its items in insertion order
GetBucketCounts(h) == CumulativeFrom(h, Sorted(DefaultBuckets), 0)

\* d[b] on the dict returned by get_bucket_counts
BucketCountAt(d, b) == d[CHOOSE i \in DOMAIN d : d[i][1] = b][2]

\* values handed to observe: negative, on a boundary, between boundaries, above all
ObserveValues == {-1000, 5, 7, 50, 1000, 20000}

\* ------------------------------------------------------------------ labels
\* Label strings of the model, listed in Python's ascending str order
\* (code points: digits < upper case < lower case < "{").  A path is the
\* sequence of its segments: <<"users", "{id}">> is "/users/{id}".
StrOrder == << "1", "2", "CancelledError", "GET", "POST", "ValueError",
               "docs", "healthz", "http_5xx", "items", "metrics", "nope",
               "raw", "redoc", "users", "{id}", "{name}" >>
StrRank(x) == CHOOSE i \in DOMAIN StrOrder : StrOrder[i] = x
\* a < b on str
StrLess(a, b) == StrRank(a) < StrRank(b)

RECURSIVE PathLess(_, _)
\* a < b on two path strings: "/" sorts below every character of a segment,
\* so the comparison runs segment by segment and a proper prefix is smaller
PathLess(a, b) ==
    IF a = <<>> THEN b # <<>>
    ELSE IF b = <<>> THEN FALSE
    ELSE IF Head(a) = Head(b) THEN PathLess(Tail(a), Tail(b))
    ELSE StrLess(Head(a), Head(b))

\* the four label-keyed families of a registry
FamCount == "http_requests_total"
FamLatency == "http_request_duration_seconds"
FamInProgress == "http_requests_in_progress"
FamErrors == "http_errors_total"
FamAppInfo == "app_info"
Families == {FamCount, FamLatency, FamInProgress, FamErrors}

\* a < b on the label tuples of one family, as Python compares tuples:
\* (method, path, status), (method, path) or (method, path, error_type)
KeyLess(fam, a, b) ==
    IF a[1] # b[1] THEN StrLess(a[1], b[1])
    ELSE IF a[2] # b[2] THEN PathLess(a[2], b[2])
    ELSE IF fam = FamCount THEN a[3] < b[3]
    ELSE IF fam = FamErrors THEN StrLess(a[3], b[3])
    ELSE FALSE

\* ---------------------------------------------------------------- registry
\* dict operations; a dict is the sequence of its <<key, value>> items
HasKey(d, k) == \E i \in DOMAIN d : d[i][1] = k
At(d, k) == d[CHOOSE i \in DOMAIN d : d[i][1] = k][2]
\* d[k] = v: a new key goes last, an existing key keeps its place
Put(d, k, v) ==
    IF HasKey(d, k) THEN [i \in DOMAIN d |-> IF d[i][1] = k THEN <<k, v>> ELSE d[i]]
    ELSE Append(d, <<k, v>>)
Keys(d) == {d[i][1] : i \in DOMAIN d}

\* MetricsRegistry.__init__: empty families, no app info, empty heaps
NewRegistry(name) ==
    [ app_name |-> name,
      count |-> <<>>, latency |-> <<>>, inprogress |-> <<>>, errors |-> <<>>,
      app_info |-> <<>>,
      counters |-> <<>>, gauges |-> <<>>, hists |-> <<>> ]

\* set_app_info
SetAppInfoOn(r, version, python_version) ==
    [r EXCEPT !.app_info = << <<"version", version>>,
                              <<"python_version", python_version>> >>]

\* The accessors return the registry after the call and the primitive handed
\* back.  The unlocked test and the locked re-test of the key run in one step.
GetRequestCountAlwaysNew(r, method, path, status) ==
    LET key == <<method, path, status>>
        id == Len(r.counters) + 1
    IN  [reg |-> [r EXCEPT !.count = Put(@, key, id), !.counters = Append(@, 0)],
         ref |-> id]
GetRequestCount(r, method, path, status) ==
    LET key == <<method, path, status>>
        id == Len(r.counters) + 1
    IN  IF HasKey(r.count, key) THEN [reg |-> r, ref |-> At(r.count, key)]
        ELSE [reg |-> [r EXCEPT !.count = Put(@, key, id), !.counters = Append(@, 0)],
              ref |-> id]

GetRequestLatency(r, method, path) ==
    LET key == <<method, path>>
        id == Len(r.hists) + 1
    IN  IF HasKey(r.latency, key) THEN [reg |-> r, ref |-> At(r.latency, key)]
        ELSE [reg |-> [r EXCEPT !.latency = Put(@, key, id),
                                !.hists = Append(@, NewHistogram)],
              ref |-> id]

GetRequestsInProgress(r, method, path) ==
    LET key == <<method, path>>
        id == Len(r.gauges) + 1
    IN  IF HasKey(r.inprogress, key) THEN [reg |-> r, ref |-> At(r.inprogress, key)]
        ELSE [reg |-> [r EXCEPT !.inprogress = Put(@, key, id), !.gauges = Append(@, 0)],
              ref |-> id]

GetErrorCount(r, method, path, error_type) ==
    LET key == <<method, path, error_type>>
        id == Len(r.counters) + 1
    IN  IF HasKey(r.errors, key) THEN [reg |-> r, ref |-> At(r.errors, key)]
        ELSE [reg |-> [r EXCEPT !.errors = Put(@, key, id), !.counters = Append(@, 0)],
              ref |-> id]

\* Counter.inc, Gauge.inc / dec and Histogram.observe on a primitive of
\* the registry's heaps, each under the primitive's own lock
CounterInc(r, ref, n) == [r EXCEPT !.counters[ref] = @ + n]
GaugeInc(r, ref, n) == [r EXCEPT !.gauges[ref] = @ + n]
GaugeDecLeftOut(r, ref, n) == r
GaugeDec(r, ref, n) == [r EXCEPT !.gauges[ref] = @ - n]
HistObserveAt(r, ref, v) == [r EXCEPT !.hists[ref] = HistObserve(@, v)]

\* ------------------------------------------------------------------ export
\* One line of the exposition text.  kind says which f-string wrote it:
\* "help", "type", "sample" (a counter, gauge or app-info line), "bucket",
\* "inf", "sum", "count" (the lines of a histogram) or "blank" (the "" that
\* closes a family's block).  family is <<app_name, family name>>; for a
\* blank line it names the block the line closes.
Line(kind, app, fam, text, key, le, value) ==
    [kind |-> kind, family |-> <<app, fam>>, text |-> text,
     key |-> key, le |-> le, value |-> value]

HeaderLines(r, fam, help, type) ==
    << Line("help", r.app_name, fam, help, <<>>, 0, 0),
       Line("type", r.app_name, fam, type, <<>>, 0, 0) >>
BlankLine(r, fam) == << Line("blank", r.app_name, fam, "", <<>>, 0, 0) >>

RECURSIVE InsertItem(_, _, _)
InsertItem(fam, it, s) ==
    IF s = <<>> THEN <<it>>
    ELSE IF KeyLess(fam, it[1], Head(s)[1]) THEN <<it>> \o s
    ELSE <<Head(s)>> \o InsertItem(fam, it, Tail(s))

RECURSIVE SortedItemsRec(_, _)
SortedItemsRec(fam, d) ==
    IF d = <<>> THEN <<>> ELSE InsertItem(fam, Head(d), SortedItemsRec(fam, Tail(d)))

\* sorted(self._<family>.items()): the items in ascending order of their keys
\* (keys are unique, so the primitives are never compared)
ItemsInDictOrder(fam, d) == d
SortedItems(fam, d) == SortedItemsRec(fam, d)

\* if self._app_info: HELP, TYPE, one line with the labels in dict order, ""
AppInfoBlock(r) ==
    IF r.app_info = <<>> THEN <<>>
    ELSE HeaderLines(r, FamAppInfo, "Application information", "gauge")
         \o << Line("sample", r.app_name, FamAppInfo, "", r.app_info, 0, 1) >>
         \o BlankLine(r, FamAppInfo)

\* one sample line per item, the value read from the heap
ScalarSamples(r, fam, items, heap) ==
    [i \in DOMAIN items |->
        Line("sample", r.app_name, fam, "", items[i][1], 0, heap[items[i][2]])]

\* the lines of one histogram: its buckets as get_bucket_counts lists them,
\* le="+Inf" with histogram.count, _sum, _count
HistogramLinesInfFromLastBucket(r, key, h) ==
    LET bc == GetBucketCounts(h)
    IN  [i \in DOMAIN bc |->
            Line("bucket", r.app_name, FamLatency, "", key, bc[i][1], bc[i][2])]
        \o << Line("inf", r.app_name, FamLatency, "", key, 0, bc[Len(bc)][2]),
              Line("sum", r.app_name, FamLatency, "", key, 0, h.sum),
              Line("count", r.app_name, FamLatency, "", key, 0, h.count) >>
HistogramLines(r, key, h) ==
    LET bc == GetBucketCounts(h)
    IN  [i \in DOMAIN bc |->
            Line("bucket", r.app_name, FamLatency, "", key, bc[i][1], bc[i][2])]
        \o << Line("inf", r.app_name, FamLatency, "", key, 0, h.count),
              Line("sum", r.app_name, FamLatency, "", key, 0, h.sum),
              Line("count", r.app_name, FamLatency, "", key, 0, h.count) >>

RECURSIVE HistogramSamples(_, _)
HistogramSamples(r, items) ==
    IF items = <<>> THEN <<>>
    ELSE HistogramLines(r, Head(items)[1], r.hists[Head(items)[2]])
         \o HistogramSamples(r, Tail(items))

\* if self._<family>: HELP, TYPE, the sample lines, ""
FamilyBlockAlways(r, fam, d, help, type, samples) ==
    HeaderLines(r, fam, help, type) \o samples \o BlankLine(r, fam)
FamilyBlock(r, fam, d, help, type, samples) ==
    IF d = <<>> THEN <<>>
    ELSE HeaderLines(r, fam, help, type) \o samples \o BlankLine(r, fam)

\* MetricsRegistry.export: the list `lines`, which "\n".join turns into the
\* text (the empty list gives the empty text)
Export(r) ==
    AppInfoBlock(r)
    \o FamilyBlock(r, FamCount, r.count, "Total HTTP requests", "counter",
           ScalarSamples(r, FamCount, SortedItems(FamCount, r.count), r.counters))
    \o FamilyBlock(r, FamLatency, r.latency, "HTTP request duration", "histogram",
           HistogramSamples(r, SortedItems(FamLatency, r.latency)))
    \o FamilyBlock(r, FamInProgress, r.inprogress, "Current in-progress requests", "gauge",
           ScalarSamples(r, FamInProgress, SortedItems(FamInProgress, r.inprogress), r.gauges))
    \o FamilyBlock(r, FamErrors, r.errors, "Total HTTP errors", "counter",
           ScalarSamples(r, FamErrors, SortedItems(FamErrors, r.errors), r.counters))

\* ------------------------------------------- direct use of a registry
\* Label tuples application code asks a registry for, chosen so that keys
\* differ in each position of the tuple
AppName == "test"
DirectCountKeys == { <<"GET", <<"users">>, 200>>, <<"GET", <<"users">>, 503>>,
                     <<"GET", <<"items">>, 200>>, <<"POST", <<"items">>, 200>> }
DirectPairKeys == { <<"GET", <<"users">>>>, <<"GET", <<"items">>>>,
                    <<"POST", <<"items">>>> }
DirectErrorKeys == { <<"GET", <<"users">>, "ValueError">>,
                     <<"GET", <<"users">>, "http_5xx">> }
DirectObserveValues == {7, 20000}

\* -------------------------------------------------------------- middleware
\* request.app.routes, in registration order.  pattern and methods are what
\* route.matches() tests; has_path says whether the route object has a
\* `path` attribute (a Route or APIRoute has, and it is the pattern; the last
\* route is of a class without one).
AppRoutes ==
    << [pattern |-> <<"users", "{id}">>, methods |-> {"GET"}, has_path |-> TRUE],
       [pattern |-> <<"users", "{name}">>, methods |-> {"GET", "POST"}, has_path |-> TRUE],
       [pattern |-> <<"metrics">>, methods |-> {"GET"}, has_path |-> TRUE],
       [pattern |-> <<"raw">>, methods |-> {"GET", "POST"}, has_path |-> FALSE] >>

\* a "{param}" segment of a pattern matches any one segment
IsParam(seg) == seg \in {"{id}", "{name}"}

RECURSIVE PatternMatches(_, _)
PatternMatches(pattern, path) ==
    IF pattern = <<>> THEN path = <<>>
    ELSE IF path = <<>> THEN FALSE
    ELSE /\ IsParam(Head(pattern)) \/ Head(pattern) = Head(path)
         /\ PatternMatches(Tail(pattern), Tail(path))

\* route.matches(request.scope): Match.NONE, Match.PARTIAL (the path matches,
\* the method does not) or Match.FULL
Matches(route, method, path) ==
    IF ~PatternMatches(route.pattern, path) THEN "NONE"
    ELSE IF method \notin route.methods THEN "PARTIAL"
    ELSE "FULL"

RECURSIVE ScanRoutes(_, _, _)
\* for route in request.app.routes: ... return getattr(route, "path", url.path)
ScanRoutes(routes, method, path) ==
    IF routes = <<>> THEN path
    ELSE IF Matches(Head(routes), method, path) = "FULL"
         THEN IF Head(routes).has_path THEN Head(routes).pattern ELSE path
         ELSE ScanRoutes(Tail(routes), method, path)

\* _get_path_template
GetPathTemplateLiteral(method, path) == path
GetPathTemplate(method, path) == ScanRoutes(AppRoutes, method, path)

\* self.exclude_paths, by default
ExcludePaths == { <<"healthz">>, <<"metrics">>, <<"docs">>, <<"redoc">> }
\* if path in self.exclude_paths
IsExcludedNever(path) == FALSE
IsExcluded(path) == path \in ExcludePaths

\* what downstream handling can do: answer with a status, or raise
DefaultStatus == 500
ErrorStatusFrom == 500
Statuses == {200, 503}
ExcTypes == {"ValueError", "CancelledError"}
\* the exception types that derive from Exception; asyncio.CancelledError
\* derives from BaseException only
ExceptionSubclasses == {"ValueError"}
NoOutcome == [kind |-> "none", status |-> 0, exc |-> ""]
ResponseOf(status) == [kind |-> "response", status |-> status, exc |-> ""]
RaiseOf(t) == [kind |-> "raise", status |-> 0, exc |-> t]

\* except Exception as e: error_type = type(e).__name__   ("" is None)
CaughtErrorType(t) == IF t \in ExceptionSubclasses THEN t ELSE ""

\* time.perf_counter() - start_time
Durations == {7, 700}

\* the requests of a run
RequestTargets == { <<"GET", <<"users", "1">>>>, <<"GET", <<"users", "2">>>>,
                    <<"POST", <<"users", "1">>>>, <<"GET", <<"metrics">>>>,
                    <<"GET", <<"nope">>>>, <<"GET", <<"raw">>>> }

\* a request nobody sent yet
NoRequest ==
    [pc |-> "new", method |-> "", path |-> <<>>, tmpl |-> <<>>, gauge |-> 0,
     down |-> NoOutcome, result |-> NoOutcome]

\* in_progress = self.registry.get_requests_in_progress(...); in_progress.inc()
TrackInProgress(r, method, tmpl) ==
    LET res == GetRequestsInProgress(r, method, tmpl)
    IN  [reg |-> GaugeInc(res.reg, res.ref, 1), ref |-> res.ref]

\* self.registry.get_request_latency(method, path_template).observe(duration)
RecordDuration(r, method, tmpl, duration) ==
    LET res == GetRequestLatency(r, method, tmpl)
    IN  HistObserveAt(res.reg, res.ref, duration)

\* self.registry.get_request_count(method, path_template, status_code).inc()
RecordCountBelow500Only(r, method, tmpl, status_code) ==
    IF status_code >= ErrorStatusFrom THEN r
    ELSE LET res == GetRequestCount(r, method, tmpl, status_code)
         IN  CounterInc(res.reg, res.ref, 1)
RecordCount(r, method, tmpl, status_code) ==
    LET res == GetRequestCount(r, method, tmpl, status_code)
    IN  CounterInc(res.reg, res.ref, 1)

\* if error_type or status_code >= 500: ... get_error_count(...).inc()
RecordErrors(r, method, tmpl, status_code, error_type) ==
    IF error_type # "" \/ status_code >= ErrorStatusFrom
    THEN LET error_label == IF error_type # "" THEN error_type ELSE "http_5xx"
             res == GetErrorCount(r, method, tmpl, error_label)
         IN  CounterInc(res.reg, res.ref, 1)
    ELSE r

\* the finally block of dispatch
Finally(r, q, status_code, error_type, duration) ==
    LET r1 == RecordDuration(r, q.method, q.tmpl, duration)
        r2 == RecordCount(r1, q.method, q.tmpl, status_code)
        r3 == RecordErrors(r2, q.method, q.tmpl, status_code, error_type)
    IN  GaugeDec(r3, q.gauge, 1)

\* ------------------------------------------- truncate_strings_in_structure
\* A payload value is <<kind, text, number>>: a string is its character
\* repeated number times (the tests' "x" * 2001), an int, a bool and None
\* are scalars, and a dict or a list is a reference to a container of the
\* object heap, so that two containers with equal contents stay distinct.
\* A list container holds its values in order, a dict container its
\* <<key, value>> pairs in insertion order; a key is <<character, length>>.
MaxContainers == 2     \* containers of the payload handed to one call
MaxItems == 2          \* items held by the containers of that payload

DefaultThreshold == 2000
StrVal(ch, n) == <<"str", ch, n>>
IntVal(n) == <<"int", "", n>>
BoolVal(b) == <<"bool", "", IF b THEN 1 ELSE 0>>
NoneVal == <<"none", "", 0>>
RefVal(a) == <<"ref", "", a>>
TruncatedMarker == <<"str", "[[truncated]]", 13>>
IsStr(v) == v[1] = "str"
IsRef(v) == v[1] = "ref"
StrLen(v) == v[3]
NewContainer(kind, items) == [kind |-> kind, items |-> items]

ExceedsThresholdInclusive(len, threshold) == len >= threshold
ExceedsThreshold(len, threshold) == len > threshold

AllocateUnlessUnchanged(h, orig, c) ==
    IF c = h[orig] THEN [heap |-> h, addr |-> orig]
    ELSE [heap |-> Append(h, c), addr |-> Len(h) + 1]
\* the container built for the input container at orig is a new object
Allocate(h, orig, c) == [heap |-> Append(h, c), addr |-> Len(h) + 1]

ItemValue(kind, item) == IF kind = "dict" THEN item[2] ELSE item
ItemWith(kind, item, v) == IF kind = "dict" THEN <<item[1], v>> ELSE v

RECURSIVE TruncateValue(_, _, _)
RECURSIVE TruncateItems(_, _, _, _)
\* the items of one container, left to right, each value truncated
TruncateItems(h, kind, items, threshold) ==
    IF items = <<>> THEN [heap |-> h, items |-> <<>>]
    ELSE LET n == Len(items)
             front == TruncateItems(h, kind, SubSeq(items, 1, n - 1), threshold)
             r == TruncateValue(front.heap, ItemValue(kind, items[n]), threshold)
         IN  [heap |-> r.heap,
              items |-> Append(front.items, ItemWith(kind, items[n], r.value))]
\* truncate_strings_in_structure(v, threshold) on heap h: the heap after
\* the call and the value returned
TruncateValue(h, v, threshold) ==
    IF IsRef(v)
    THEN LET c == h[v[3]]
             r == TruncateItems(h, c.kind, c.items, threshold)
             a == Allocate(r.heap, v[3], NewContainer(c.kind, r.items))
         IN  [heap |-> a.heap, value |-> RefVal(a.addr)]
    ELSE IF IsStr(v) /\ ExceedsThreshold(StrLen(v), threshold)
    THEN [heap |-> h, value |-> TruncatedMarker]
    ELSE [heap |-> h, value |-> v]

TruncLeaves ==
    {StrVal("x", 2000), StrVal("x", 2001), IntVal(123), BoolVal(TRUE), NoneVal}
TruncKeys == {<<"k", 1>>, <<"K", 2001>>}
Thresholds == {DefaultThreshold, 2001}
RECURSIVE CountItems(_)
CountItems(h) == IF h = <<>> THEN 0 ELSE Len(h[1].items) + CountItems(Tail(h))
\* d[key] = v on a dict container: an existing key keeps its position
DictSet(items, key, v) ==
    IF \E i \in DOMAIN items : items[i][1] = key
    THEN [i \in DOMAIN items |-> IF items[i][1] = key THEN <<key, v>> ELSE items[i]]
    ELSE Append(items, <<key, v>>)

VARIABLES
    tHeap,        \* the containers of the payload, by address
    tBefore,      \* the containers as they were when the call was made
    tArg,         \* the value and threshold handed to the call
    tResult,      \* the value the call returned
    tpc           \* "build" until the call is made, then "done"

truncVars == <<tHeap, tBefore, tArg, tResult, tpc>>

InitTruncate ==
    /\ tHeap = <<>>
    /\ tBefore = <<>>
    /\ tArg = <<NoneVal, 0>>
    /\ tResult = NoneVal
    /\ tpc = "build"


\* ------------------------------------------------- MaxRequestSizeMiddleware
\* A header value is the sequence of its characters; a body is its length
\* in bytes; a response is its status and its text, the text being a
\* template and the number formatted into it.
MaxSizeCalls == 2      \* ASGI calls MaxRequestSizeMiddleware receives in one run

DigitChars == <<"0", "1", "2", "3", "4", "5", "6", "7", "8", "9">>
IsDigit(c) == \E i \in DOMAIN DigitChars : DigitChars[i] = c
DigitOf(c) == (CHOOSE i \in DOMAIN DigitChars : DigitChars[i] = c) - 1
RECURSIVE DigitsValue(_)
DigitsValue(s) == IF s = <<>> THEN 0 ELSE 10 * DigitsValue(SubSeq(s, 1, Len(s) - 1)) + DigitOf(s[Len(s)])
\* int(text): an optional sign and at least one digit, or ValueError
ParseInt(s) ==
    LET signed == s # <<>> /\ s[1] \in {"+", "-"}
        digits == IF signed THEN Tail(s) ELSE s
    IN  IF digits = <<>> \/ \E i \in DOMAIN digits : ~IsDigit(digits[i])
        THEN [ok |-> FALSE, value |-> 0]
        ELSE [ok |-> TRUE,
              value |-> IF signed /\ s[1] = "-" THEN 0 - DigitsValue(digits) ELSE DigitsValue(digits)]
\* str(n) for n >= 0
RECURSIVE Decimal(_)
Decimal(n) == IF n < 10 THEN <<DigitChars[n + 1]>> ELSE Append(Decimal(n \div 10), DigitChars[(n % 10) + 1])

NoHeader == <<"absent">>
\* dict(headers).get(name): the last value sent under the name
HeaderValue(headers, name) ==
    IF \E i \in DOMAIN headers : headers[i][1] = name
    THEN <<"value", headers[CHOOSE i \in DOMAIN headers :
                 /\ headers[i][1] = name
                 /\ \A j \in DOMAIN headers : headers[j][1] = name => j <= i][2]>>
    ELSE NoHeader

TooLargeResponse(max_size) ==
    [status |-> 413,
     content |-> [template |-> "Request body too large. Max size: {} bytes", arg |-> max_size]]
\* what the wrapped application sends: the test endpoint's {"size": len(body)}
AppResponse(scope) ==
    [status |-> 200, content |-> [template |-> "{\"size\":{}}", arg |-> scope.body]]

LengthOverLimitIgnored(length, max_size) == FALSE
LengthOverLimit(length, max_size) == length > max_size

\* MaxRequestSizeMiddleware.__call__: whether self.app was called, and the
\* response that went to send
MaxRequestSizeCall(max_size, scope) ==
    LET passed == [app |-> TRUE, response |-> AppResponse(scope)]
        content_length == HeaderValue(scope.headers, "content-length")
    IN  IF scope.type # "http" THEN passed
        ELSE IF content_length # NoHeader /\ content_length[2] # <<>>
        THEN LET length == ParseInt(content_length[2])
             IN  IF length.ok /\ LengthOverLimit(length.value, max_size)
                 THEN [app |-> FALSE, response |-> TooLargeResponse(max_size)]
                 ELSE passed
        ELSE passed

DefaultMaxSize == 10 * 1024 * 1024
MaxSizes == {100, 1024, DefaultMaxSize}
NotInstalled == -1
BodySizes == {10, 100, 200, 2000}
\* the Content-Length a client may send with a body of n bytes: none
\* (chunked transfer), the body's length, an empty value, or text that is
\* no number
ContentLengthHeaders(n) ==
    {<<>>,
     <<<<"content-length", Decimal(n)>>>>,
     <<<<"content-length", <<>>>>>>,
     <<<<"content-length", <<"1", "k">>>>>>}
HttpScopes ==
    {[type |-> "http", headers |-> h, body |-> n] : n \in BodySizes, h \in UNION {ContentLengthHeaders(m) : m \in BodySizes}}
SizeScopes ==
    {s \in HttpScopes : s.headers \in ContentLengthHeaders(s.body)}
        \cup {[type |-> "websocket", headers |-> <<>>, body |-> 0]}

VARIABLES
    szMax,        \* MaxRequestSizeMiddleware.max_size, once the middleware is constructed
    szLog         \* per call, in order: the scope, whether the app ran, the response sent

sizeVars == <<szMax, szLog>>

InitMaxSize ==
    /\ szMax = NotInstalled
    /\ szLog = <<>>


\* ----------------------------------------------- SecurityHeadersMiddleware
\* Response headers are a sequence of <<name, value>> in the order they
\* were first set; a header value is the sequence of the pieces of text it
\* was put together from.  None and "" are both the empty text "".
MaxSecCalls == 2       \* requests SecurityHeadersMiddleware dispatches in one run

DefaultHstsMaxAge == 31536000
DefaultPermissionsPolicy == "geolocation=(), microphone=(), camera=()"
HasHeader(headers, name) == \E i \in DOMAIN headers : headers[i][1] = name
\* response.headers[name] = value
SetHeader(headers, name, value) ==
    IF HasHeader(headers, name)
    THEN [i \in DOMAIN headers |-> IF headers[i][1] = name THEN <<name, value>> ELSE headers[i]]
    ELSE Append(headers, <<name, value>>)
SetHeaderIf(cond, headers, name, value) ==
    IF cond THEN SetHeader(headers, name, value) ELSE headers

\* SecurityHeadersMiddleware.__init__ with the arguments the application gives
SecurityConfig(stage, enable_in_dev, hsts_max_age, hsts_include_subdomains, hsts_preload, content_security_policy) ==
    [stage |-> stage,
     enable_in_dev |-> enable_in_dev,
     hsts_max_age |-> hsts_max_age,
     hsts_include_subdomains |-> hsts_include_subdomains,
     hsts_preload |-> hsts_preload,
     content_security_policy |-> content_security_policy,
     x_frame_options |-> "DENY",
     x_content_type_options |-> "nosniff",
     referrer_policy |-> "strict-origin-when-cross-origin",
     permissions_policy |-> DefaultPermissionsPolicy]

HstsValue(cfg) ==
    (<<"max-age=">> \o Decimal(cfg.hsts_max_age))
        \o (IF cfg.hsts_include_subdomains THEN <<"; includeSubDomains">> ELSE <<>>)
        \o (IF cfg.hsts_preload THEN <<"; preload">> ELSE <<>>)

\* the response call_next returns for the test endpoint
EndpointResponse ==
    [status |-> 200, headers |-> <<<<"content-type", <<"application/json">>>>>>]

\* SecurityHeadersMiddleware.dispatch: the response it returns for the
\* response call_next gave
SecurityDispatch(cfg, request, response) ==
    IF cfg.stage = "dev" /\ ~cfg.enable_in_dev THEN response
    ELSE LET h1 == SetHeaderIf(cfg.hsts_max_age > 0, response.headers,
                               "Strict-Transport-Security", HstsValue(cfg))
             h2 == SetHeaderIf(cfg.content_security_policy # "", h1,
                               "Content-Security-Policy", <<cfg.content_security_policy>>)
             h3 == SetHeaderIf(cfg.x_frame_options # "", h2,
                               "X-Frame-Options", <<cfg.x_frame_options>>)
             h4 == SetHeaderIf(cfg.x_content_type_options # "", h3,
                               "X-Content-Type-Options", <<cfg.x_content_type_options>>)
             h5 == SetHeader(h4, "X-XSS-Protection", <<"1; mode=block">>)
             h6 == SetHeaderIf(cfg.referrer_policy # "", h5,
                               "Referrer-Policy", <<cfg.referrer_policy>>)
             h7 == SetHeaderIf(cfg.permissions_policy # "", h6,
                               "Permissions-Policy", <<cfg.permissions_policy>>)
         IN  [response EXCEPT !.headers = h7]

Stages == {"dev", "staging", "prod"}
HstsMaxAges == {0, 3600, DefaultHstsMaxAge}
ContentSecurityPolicies == {"", "default-src 'self'; script-src 'unsafe-inline'"}
SecurityConfigs ==
    {SecurityConfig(st, dv, age, sub, pre, csp) :
        st \in Stages, dv \in BOOLEAN, age \in HstsMaxAges,
        sub \in BOOLEAN, pre \in BOOLEAN, csp \in ContentSecurityPolicies}
\* a request: the scheme of the connection and the headers the client sent
SecurityRequests ==
    {[scheme |-> sc, headers |-> h] :
        sc \in {"http", "https"},
        h \in {<<>>, <<<<"x-forwarded-proto", <<"https">>>>>>, <<<<"x-forwarded-proto", <<"http">>>>>>}}
NoSecurityConfig == SecurityConfig("", FALSE, 0, FALSE, FALSE, "")

VARIABLES
    secCfg,       \* the fields of the SecurityHeadersMiddleware instance
    secLog        \* per request, in order: the request and the response returned

secVars == <<secCfg, secLog>>

InitSecurity ==
    /\ secCfg = NoSecurityConfig
    /\ secLog = <<>>


\* ------------------------------------------------------ mask_sensitive_data
\* A field name is the sequence of its characters, so that lower() is
\* computed character by character.  Payload values and containers are
\* those of the object heap above.
UpperChars == <<"A", "B", "C", "D", "E", "F", "G", "H", "I", "J", "K", "L", "M", "N", "O", "P", "Q", "R", "S", "T", "U", "V", "W", "X", "Y", "Z">>
LowerChars == <<"a", "b", "c", "d", "e", "f", "g", "h", "i", "j", "k", "l", "m", "n", "o", "p", "q", "r", "s", "t", "u", "v", "w", "x", "y", "z">>
LowerChar(c) ==
    IF \E i \in DOMAIN UpperChars : UpperChars[i] = c
    THEN LowerChars[CHOOSE i \in DOMAIN UpperChars : UpperChars[i] = c]
    ELSE c
\* str.lower()
LowerName(k) == [i \in DOMAIN k |-> LowerChar(k[i])]

\* SecuritySettings.mask_sensitive_fields
DefaultSensitiveFields ==
    <<<<"p", "a", "s", "s", "w", "o", "r", "d">>,
      <<"p", "a", "s", "s", "w", "d">>,
      <<"s", "e", "c", "r", "e", "t">>,
      <<"t", "o", "k", "e", "n">>,
      <<"a", "p", "i", "_", "k", "e", "y">>,
      <<"a", "p", "i", "k", "e", "y">>,
      <<"a", "u", "t", "h", "o", "r", "i", "z", "a", "t", "i", "o", "n">>,
      <<"a", "u", "t", "h">>,
      <<"c", "r", "e", "d", "e", "n", "t", "i", "a", "l">>,
      <<"p", "r", "i", "v", "a", "t", "e", "_", "k", "e", "y">>,
      <<"a", "c", "c", "e", "s", "s", "_", "t", "o", "k", "e", "n">>,
      <<"r", "e", "f", "r", "e", "s", "h", "_", "t", "o", "k", "e", "n">>>>
MaskedMarker == <<"str", "***MASKED***", 12>>
UseSettings == <<"None">>
\* sensitive_set: the lower-cased names of the list given, or of the
\* settings' list when the argument is None
SensitiveSet(sensitive_fields) ==
    LET fields == IF sensitive_fields = UseSettings
                  THEN DefaultSensitiveFields ELSE sensitive_fields[2]
    IN  {LowerName(fields[i]) : i \in DOMAIN fields}

IsSensitiveKeyExact(k, sensitive_set) == k \in sensitive_set
IsSensitiveKey(k, sensitive_set) == LowerName(k) \in sensitive_set

\* the dict or list comprehension's result is a new object
NewObject(h, c) == [heap |-> Append(h, c), addr |-> Len(h) + 1]

RECURSIVE Mask(_, _, _)
RECURSIVE MaskItems(_, _, _, _)
MaskItems(h, kind, items, sensitive_set) ==
    IF items = <<>> THEN [heap |-> h, items |-> <<>>]
    ELSE LET n == Len(items)
             front == MaskItems(h, kind, SubSeq(items, 1, n - 1), sensitive_set)
             r == IF kind = "dict" /\ IsSensitiveKey(items[n][1], sensitive_set)
                  THEN [heap |-> front.heap, value |-> MaskedMarker]
                  ELSE Mask(front.heap, ItemValue(kind, items[n]), sensitive_set)
         IN  [heap |-> r.heap,
              items |-> Append(front.items, ItemWith(kind, items[n], r.value))]
\* _mask(obj) on heap h: the heap after the call and the value returned
Mask(h, obj, sensitive_set) ==
    IF IsRef(obj)
    THEN LET c == h[obj[3]]
             r == MaskItems(h, c.kind, c.items, sensitive_set)
             a == NewObject(r.heap, NewContainer(c.kind, r.items))
         IN  [heap |-> a.heap, value |-> RefVal(a.addr)]
    ELSE [heap |-> h, value |-> obj]
MaskSensitiveData(h, data, sensitive_fields) == Mask(h, data, SensitiveSet(sensitive_fields))

MaskLeaves == {<<"str", "abc123", 6>>, <<"str", "john", 4>>, NoneVal}
MaskKeys == {<<"t", "o", "k", "e", "n">>, <<"T", "o", "k", "e", "n">>, <<"i", "d">>}
SensitiveFieldsArgs == {UseSettings, <<"list", <<<<"T", "O", "K", "E", "N">>>>>>, <<"list", <<>>>>}

VARIABLES
    mHeap,        \* the containers of the data, by address
    mBefore,      \* the containers as they were when the call was made
    mArg,         \* the data and the sensitive_fields handed to the call
    mResult,      \* the value the call returned
    mpc           \* "build" until the call is made, then "done"

maskVars == <<mHeap, mBefore, mArg, mResult, mpc>>

InitMask ==
    /\ mHeap = <<>>
    /\ mBefore = <<>>
    /\ mArg = <<NoneVal, UseSettings>>
    /\ mResult = NoneVal
    /\ mpc = "build"

\* ---------------------------------------------------- create_app.lifespan
\* A coroutine function is its name and the number of parameters its
\* signature declares.  The lifespan's history is the sequence of what
\* happened, each entry <<event, coroutine name, argument>>.
MaxCoroutines == 2     \* coroutines in the startup list, and in the shutdown list

CoroutineFn(name, params) == [name |-> name, params |-> params]
\* len(sig.parameters) > 0: await coroutine(app), else await coroutine()
CallArgumentAlwaysApp(fn) == "app"
CallArgument(fn) == IF fn.params > 0 THEN "app" ELSE ""
CallEvent(fn) == <<"call", fn.name, CallArgument(fn)>>
ReturnEvent(fn) == <<"return", fn.name, "">>
RaiseEvent(fn) == <<"raise", fn.name, "">>
YieldEvent == <<"yield", "", "">>
ResumeEvent == <<"resume", "", "">>
SleepEvent == <<"sleep", "", "">>
WokenEvent == <<"woken", "", "">>
\* graceful_timeout > 0: await asyncio.sleep(graceful_timeout)
WaitsBeforeShutdown(graceful_timeout) == graceful_timeout > 0

StartupFns == {CoroutineFn("startup_with_app", 1), CoroutineFn("startup_no_param", 0)}
ShutdownFns == {CoroutineFn("shutdown_with_app", 1), CoroutineFn("shutdown_no_param", 0)}
RECURSIVE ListsOver(_, _)
\* the lists of at most n elements of S
ListsOver(S, n) ==
    IF n = 0 THEN {<<>>}
    ELSE ListsOver(S, n - 1) \cup {Append(l, x) : l \in {m \in ListsOver(S, n - 1) : Len(m) = n - 1}, x \in S}
GracefulTimeouts == {0, 2}
NoLifespan == [startup_coroutines |-> <<>>, shutdown_coroutines |-> <<>>, graceful_timeout |-> -1]

VARIABLES
    lsApp,        \* what create_app's lifespan closes over: the two lists and graceful_timeout
    lsPc,         \* where the lifespan coroutine is
    lsIdx,        \* the position of the loop it is in
    lsLog         \* what has happened so far

lifespanVars == <<lsApp, lsPc, lsIdx, lsLog>>

InitLifespan ==
    /\ lsApp = NoLifespan
    /\ lsPc = "none"
    /\ lsIdx = 0
    /\ lsLog = <<>>


\* ------------------------------------------------ get_cors_config_for_stage
\* A list of strings is a sequence.  A response's CORS header is the value
\* of access-control-allow-origin, "" when the header is not sent.
MaxCorsCalls == 2      \* requests sent to the application in one run

DefaultCorsMaxAge == 600
DefaultAllowMethods == <<"GET", "POST", "PUT", "DELETE", "PATCH", "OPTIONS">>
\* CORSSettings(origins=..., allow_credentials=..., allow_methods=..., allow_headers=...)
CORSSettings(origins, allow_credentials, allow_methods, allow_headers) ==
    [origins |-> origins,
     allow_credentials |-> allow_credentials,
     allow_methods |-> allow_methods,
     allow_headers |-> allow_headers,
     expose_headers |-> <<"X-Request-ID", "X-Trace-ID">>,
     max_age |-> DefaultCorsMaxAge]

GetCorsConfigForStageIgnoringOrigins(stage, cors) ==
    IF stage = "dev"
    THEN CORSSettings(<<"*">>, TRUE, <<"*">>, <<"*">>)
    ELSE IF stage = "staging"
    THEN CORSSettings(cors.origins, TRUE, cors.allow_methods, cors.allow_headers)
    ELSE CORSSettings(cors.origins, TRUE,
                      <<"GET", "POST", "PUT", "DELETE", "PATCH">>,
                      <<"Content-Type", "Authorization", "X-Request-ID">>)
\* BootstrapSettings.get_cors_config_for_stage
GetCorsConfigForStage(stage, cors) ==
    IF cors.origins # <<>> THEN cors
    ELSE IF stage = "dev"
    THEN CORSSettings(<<"*">>, TRUE, <<"*">>, <<"*">>)
    ELSE IF stage = "staging"
    THEN CORSSettings(cors.origins, TRUE, cors.allow_methods, cors.allow_headers)
    ELSE CORSSettings(cors.origins, TRUE,
                      <<"GET", "POST", "PUT", "DELETE", "PATCH">>,
                      <<"Content-Type", "Authorization", "X-Request-ID">>)

Contains(list, x) == \E i \in DOMAIN list : list[i] = x
\* what create_app hands to CORSMiddleware
CorsMiddlewareArgs(stage, cors) ==
    LET cors_config == GetCorsConfigForStage(stage, cors)
    IN  [allow_origins |-> cors_config.origins,
         allow_credentials |-> cors_config.allow_credentials,
         allow_methods |-> cors_config.allow_methods,
         allow_headers |-> cors_config.allow_headers]
\* the access-control-allow-origin CORSMiddleware puts on the response to a
\* request without cookies: "*" when every origin is allowed, the request's
\* origin when it is listed, none otherwise or when the request names no origin
AllowOriginHeader(mw, origin) ==
    IF origin = "" THEN ""
    ELSE IF Contains(mw.allow_origins, "*") THEN "*"
    ELSE IF Contains(mw.allow_origins, origin) THEN origin
    ELSE ""

ConfiguredOrigins == {<<>>, <<"https://myapp.com", "https://www.myapp.com">>, <<"*">>}
ConfiguredMethods == {DefaultAllowMethods, <<"GET", "POST">>, <<"*">>}
ConfiguredCors ==
    {CORSSettings(o, c, m, <<"*">>) : o \in ConfiguredOrigins, c \in BOOLEAN, m \in ConfiguredMethods}
RequestOrigins == {"", "https://myapp.com", "https://evil-site.com"}
NoCorsApp == [stage |-> "", cors |-> CORSSettings(<<>>, FALSE, <<>>, <<>>),
              middleware |-> [allow_origins |-> <<>>, allow_credentials |-> FALSE,
                              allow_methods |-> <<>>, allow_headers |-> <<>>]]

VARIABLES
    corsApp,      \* the settings create_app was given and the CORSMiddleware it installed
    corsLog       \* per request, in order: its Origin and the allow-origin header answered

corsVars == <<corsApp, corsLog>>

InitCors ==
    /\ corsApp = NoCorsApp
    /\ corsLog = <<>>


\* ---------------------------------------------------------- FastAPIBootstrap
\* The builder is one object, identified by BuilderId; a configuration
\* method's return value is the identity of the object it returns.  A
\* router is its name and the paths of its routes; a path or a prefix is
\* the sequence of its segments ("/api/v1" is <<"api", "v1">>).
MaxChain == 3          \* configuration calls chained on one builder before build()

BuilderId == 1
DefaultTitle == "FastAPI Application"
DefaultVersion == "0.1.0"
\* FastAPIBootstrap.__init__
NewBuilder ==
    [title |-> DefaultTitle, version |-> DefaultVersion, stage |-> "dev",
     prefix_url |-> <<>>, routers |-> <<>>, enable_metrics |-> FALSE]

\* Stage(stage.lower()) for the names of the enum's values
StageNames ==
    <<[chars |-> <<"d", "e", "v">>, value |-> "dev"],
      [chars |-> <<"s", "t", "a", "g", "i", "n", "g">>, value |-> "staging"],
      [chars |-> <<"p", "r", "o", "d">>, value |-> "prod"]>>
StageOf(chars) ==
    StageNames[CHOOSE i \in DOMAIN StageNames : StageNames[i].chars = LowerName(chars)].value

\* the parameters create_app declares, and those of them without a default
CreateAppParameters ==
    {"routers", "settings", "dependencies", "middlewares", "startup_coroutines",
     "shutdown_coroutines", "exception_handlers"}
CreateAppRequired == {"routers"}
\* the keyword arguments build() calls create_app with
BuildKeywords ==
    {"api_list", "title", "version", "prefix_url", "graceful_timeout", "dependencies",
     "startup_coroutines", "shutdown_coroutines", "health_check_api", "metrics_api",
     "docs_enable", "docs_prefix_url", "add_external_basic_auth", "stage", "cors_origins",
     "cors_allow_credentials", "cors_allow_methods", "cors_allow_headers",
     "swagger_ui_init_oauth"}
\* Python binds a call made with keywords only iff every keyword names a
\* parameter and every parameter without a default is given
CallBinds(keywords, parameters, required) ==
    keywords \subseteq parameters /\ required \subseteq keywords

NoApp == [title |-> "", version |-> "", routes |-> {}]
\* build(): api_list is each router under its own prefix; the call of
\* create_app raises TypeError unless its keywords bind; the application
\* has the title and version given and every router under prefix_url
BuildApp(b) ==
    LET api_list == [i \in DOMAIN b.routers |->
                        {b.routers[i].prefix \o p : p \in b.routers[i].router.paths}]
    IN  IF ~CallBinds(BuildKeywords, CreateAppParameters, CreateAppRequired)
        THEN [raised |-> "TypeError", app |-> NoApp]
        ELSE [raised |-> "",
              app |-> [title |-> b.title, version |-> b.version,
                       routes |-> UNION {{b.prefix_url \o p : p \in api_list[i]} : i \in DOMAIN api_list}
                                     \cup (IF b.enable_metrics THEN {<<"metrics">>} ELSE {})]]

BuilderTitles == {"My API", "Test API"}
BuilderVersions == {"1.0.0", "2.0.0"}
BuilderPrefixes == {<<>>, <<"api", "v1">>}
BuilderStageArgs == {<<"d", "e", "v">>, <<"P", "R", "O", "D">>, <<"s", "t", "a", "g", "i", "n", "g">>}
BuilderRouters ==
    {[name |-> "router1", paths |-> {<<"users">>}], [name |-> "router2", paths |-> {<<"posts">>}]}
RouterPrefixes == {<<>>, <<"v1">>}

VARIABLES
    bld,          \* the fields of the FastAPIBootstrap instance
    bldRet,       \* what each configuration call returned, in call order
    bldOut,       \* what build() did: the exception raised or the application returned
    bldPc         \* "config" until build() is called, then "built"

builderVars == <<bld, bldRet, bldOut, bldPc>>

InitBuilder ==
    /\ bld = NewBuilder
    /\ bldRet = <<>>
    /\ bldOut = [raised |-> "", app |-> NoApp]
    /\ bldPc = "config"


\* ------------------------------------- registry accessors, thread by thread
MaxAccessorCalls == 2  \* accessor calls issued in one run

\* the label keys the callers ask for, per family
AccessorKeys(fam) ==
    IF fam = FamCount THEN {<<"GET", <<"users">>, 200>>, <<"GET", <<"users">>, 404>>}
    ELSE IF fam = FamErrors THEN {<<"GET", <<"users">>, "ValueError">>,
                                  <<"GET", <<"users">>, "CancelledError">>}
    ELSE {<<"GET", <<"users">>>>, <<"POST", <<"users">>>>}

\* Counter(), Histogram(), Gauge(): a fresh primitive nothing was recorded in
NewPrimitive(fam) ==
    [ kind |-> IF fam = FamLatency THEN "Histogram"
               ELSE IF fam = FamInProgress THEN "Gauge" ELSE "Counter",
      n |-> 0 ]

\* the test `key not in self._<family>` made while holding self._lock
KeyMissingUnderLockAssumed(d, key) == TRUE
KeyMissingUnderLock(d, key) == ~HasKey(d, key)

VARIABLES
    accDict,      \* per family: the dict of a MetricsRegistry, key to primitive
    accHeap,      \* every primitive constructed so far, by identity
    accLock,      \* MetricsRegistry._lock: 0 or the thread that holds it
    accPc,        \* per thread: where it is inside the accessor
    accArg,       \* per thread: <<family, key>> of its current call
    accSlow,      \* per thread: its current call found the key missing unlocked
    accRef,       \* per thread: the primitive its call returned
    accLog,       \* the updates callers made through returned primitives
    accCalls      \* accessor calls issued so far

accVars == <<accDict, accHeap, accLock, accPc, accArg, accSlow, accRef, accLog, accCalls>>

InitAccessor ==
    /\ accDict = [f \in Families |-> <<>>]
    /\ accHeap = <<>>
    /\ accLock = 0
    /\ accPc = [t \in Threads |-> "idle"]
    /\ accArg = [t \in Threads |-> <<"", <<>>>>]
    /\ accSlow = [t \in Threads |-> FALSE]
    /\ accRef = [t \in Threads |-> 0]
    /\ accLog = <<>>
    /\ accCalls = 0


\* ------------------------------- MetricsMiddleware.dispatch, by statement
MaxDispatches == 2     \* requests that enter dispatch in one run

\* the statements of dispatch that record something, in the order the code
\* runs them once the path is known not to be excluded; "deliver" is the
\* pending `return response` or the re-raised exception leaving dispatch
StatementAfterDecFirst(stmt) ==
    IF stmt = "inc" THEN "call_next"
    ELSE IF stmt = "call_next" THEN "awaiting"
    ELSE IF stmt = "awaiting" THEN "dec"
    ELSE IF stmt = "dec" THEN "observe"
    ELSE IF stmt = "observe" THEN "count"
    ELSE IF stmt = "count" THEN "errors"
    ELSE IF stmt = "errors" THEN "deliver"
    ELSE "done"
StatementAfter(stmt) ==
    IF stmt = "inc" THEN "call_next"
    ELSE IF stmt = "call_next" THEN "awaiting"
    ELSE IF stmt = "awaiting" THEN "observe"
    ELSE IF stmt = "observe" THEN "count"
    ELSE IF stmt = "count" THEN "errors"
    ELSE IF stmt = "errors" THEN "dec"
    ELSE IF stmt = "dec" THEN "deliver"
    ELSE "done"

\* the requests sent while dispatch is followed statement by statement
DispatchTargets == { <<"GET", <<"users", "1">>>>, <<"GET", <<"metrics">>>>,
                     <<"GET", <<"nope">>>> }
DownstreamOutcomes == {ResponseOf(st) : st \in Statuses} \cup {RaiseOf(t) : t \in ExcTypes}

\* the frame of one dispatch call
NoFrame ==
    [pc |-> "new", method |-> "", path |-> <<>>, tmpl |-> <<>>, gauge |-> 0,
     status_code |-> 0, error_type |-> "", pending |-> NoOutcome, result |-> NoOutcome]

VARIABLES
    dFrames,      \* per request, in arrival order: its dispatch frame
    dReg,         \* the MetricsRegistry the middleware records in
    dRunning,     \* the frame the event loop is running: 0 when all are suspended
    dLog,         \* what happened so far, in order: <<frame, event>>
    dArrived      \* requests that entered dispatch so far

dispatchVars == <<dFrames, dReg, dRunning, dLog, dArrived>>

InitDispatch ==
    /\ dFrames = [i \in 1..MaxDispatches |-> NoFrame]
    /\ dReg = NewRegistry(AppName)
    /\ dRunning = 0
    /\ dLog = <<>>
    /\ dArrived = 0


\* --------------------------- export of one histogram, beside its observers
\* what export has read of the histogram so far: the dict of
\* get_bucket_counts, then count for le="+Inf", sum for _sum, count for _count
NothingRead == [buckets |-> <<>>, inf |-> 0, sum |-> 0, count |-> 0]

VARIABLES
    xpc,          \* where export is in the lines of the histogram
    xOut          \* the values export has put into its lines so far

exportVars == <<xpc, xOut>>

InitExportReader ==
    /\ xpc = "idle"
    /\ xOut = NothingRead


\* ---------------------------- export of the families, beside key creation
\* the order export goes through the label-keyed families
ExportOrder == <<FamCount, FamLatency, FamInProgress, FamErrors>>
\* the family whose dict guards the block of family fam: `if self._<family>:`
BlockTestedAlwaysCount(fam) == FamCount
BlockTested(fam) == fam
\* the series a block writes: one per item of sorted(self._<family>.items())
SeriesOf(fam, d) == [i \in DOMAIN d |-> <<fam, SortedItems(fam, d)[i][1]>>]

VARIABLES
    ePc,          \* where export is: at a family's `if`, at its loop, or returned
    eFam,         \* the place in ExportOrder of the family export is at
    eBefore,      \* the family dicts as they were when export was called
    eOut          \* the series export has written so far, in order

keysExportVars == <<ePc, eFam, eBefore, eOut>>

InitKeysExport ==
    /\ ePc = "idle"
    /\ eFam = 0
    /\ eBefore = [f \in Families |-> <<>>]
    /\ eOut = <<>>


\* ------------------------------ the two kinds of lock, thread by thread
MaxLockSteps == 3      \* bookkeeping steps started in one run

\* the series the bookkeeping steps of a run go to
LockSeries == { <<FamInProgress, <<"GET", <<"users">>>>>>,
                <<FamCount, <<"GET", <<"users">>, 200>>>> }

\* self._lock once `with self._lock:` is left by thread t
RegistryLockOnExitKept(t) == t
RegistryLockOnExit(t) == 0

VARIABLES
    lkReg,        \* MetricsRegistry._lock: 0 or the thread that holds it
    lkPrim,       \* per series: the _lock of its primitive, 0 or the holder
    lkStored,     \* the series that have a primitive in their family dict
    lkVal,        \* per series: the updates recorded in its primitive
    lkPc,         \* per thread: where it is in its bookkeeping step
    lkArg,        \* per thread: the series of its current step
    lkSteps       \* bookkeeping steps started so far

lockVars == <<lkReg, lkPrim, lkStored, lkVal, lkPc, lkArg, lkSteps>>

InitLocks ==
    /\ lkReg = 0
    /\ lkPrim = [s \in LockSeries |-> 0]
    /\ lkStored = {}
    /\ lkVal = [s \in LockSeries |-> 0]
    /\ lkPc = [t \in Threads |-> "idle"]
    /\ lkArg = [t \in Threads |-> <<"", <<>>>>]
    /\ lkSteps = 0


\* ------------------------------ the global table of registries, by thread
MaxLookups == 3        \* get_metrics_registry calls made in one run
MaxResets == 1         \* reset_metrics_registry calls made in one run

\* get_metrics_registry(app_name: str = "fastapi_bootstrap")
DefaultAppName == "fastapi_bootstrap"
AppNames == {DefaultAppName, AppName}

\* if app_name not in _metrics_registries
NotInTable(table, app_name) == ~HasKey(table, app_name)

\* get_metrics_registry run without another thread in between: the table
\* and the registries after the call, and the registry returned
GetMetricsRegistry(table, regs, app_name) ==
    IF NotInTable(table, app_name)
    THEN [table |-> Put(table, app_name, Len(regs) + 1),
          regs |-> Append(regs, NewRegistry(app_name)),
          ref |-> Len(regs) + 1]
    ELSE [table |-> table, regs |-> regs, ref |-> At(table, app_name)]

VARIABLES
    gTable,       \* _metrics_registries: app name to registry
    gRegs,        \* every MetricsRegistry constructed so far, by identity
    gPc,          \* per thread: where it is inside get_metrics_registry
    gName,        \* per thread: the app_name of its current call
    gRef,         \* per thread: the registry its last call returned
    gLog,         \* <<app_name, registry>> of the calls returned since the last reset
    gLookups,     \* get_metrics_registry calls made so far
    gResets       \* reset_metrics_registry calls made so far

tableVars == <<gTable, gRegs, gPc, gName, gRef, gLog, gLookups, gResets>>

InitTable ==
    /\ gTable = <<>>
    /\ gRegs = <<>>
    /\ gPc = [t \in Threads |-> "idle"]
    /\ gName = [t \in Threads |-> ""]
    /\ gRef = [t \in Threads |-> 0]
    /\ gLog = <<>>
    /\ gLookups = 0
    /\ gResets = 0


\* -------------------------------- MetricsMiddleware beside the metrics route
MaxScrapeRequests == 2 \* requests the application handles in one run
MaxScrapes == 2        \* GET requests of the metrics endpoint in one run

\* dispatch of a request that is not excluded, from entry to return, on the
\* registry r the middleware holds
DispatchOn(r, method, tmpl, status_code, duration) ==
    LET res == TrackInProgress(r, method, tmpl)
    IN  Finally(res.reg, [method |-> method, tmpl |-> tmpl, gauge |-> res.ref],
                status_code, "", duration)

VARIABLES
    sMw,          \* MetricsMiddleware.registry: 0 before the middleware is built
    sHandled,     \* requests the middleware has recorded so far
    sScrapes,     \* responses the metrics endpoint has given so far
    sText         \* the content of the last of these responses, as its lines

scrapeVars == <<sMw, sHandled, sScrapes, sText>>

InitScrape ==
    /\ sMw = 0
    /\ sHandled = 0
    /\ sScrapes = 0
    /\ sText = <<>>


\* ------------------------------------------------------------------- state
VARIABLES
    ctrValue,     \* Counter._value
    ctrLock,      \* Counter._lock
    cpc,          \* per thread: where it is inside inc
    carg,         \* per thread: the amount of its current inc
    cloc,         \* per thread: the value it loaded for +=
    cIssued,      \* the amounts of the inc calls made so far, in call order
    hist,         \* one Histogram
    hLock,        \* Histogram._lock
    hpc,          \* per thread: where it is inside observe
    harg,         \* per thread: the value of its current observe
    hObs,         \* the values of the observe calls made so far, in call order
    reg,          \* a MetricsRegistry with its primitives
    held,         \* per family: the <<key, primitive>> of each accessor call, in call order
    regOps,       \* direct calls made on the registry so far
    rq,           \* per request, in arrival order: the state of its dispatch
    nArrived      \* requests that entered dispatch so far

counterVars == <<ctrValue, ctrLock, cpc, carg, cloc, cIssued>>
histVars == <<hist, hLock, hpc, harg, hObs>>
regVars == <<reg, held, regOps>>
directVars == <<held, regOps>>
mwVars == <<rq, nArrived>>
coreVars == <<counterVars, histVars, regVars, mwVars>>
extVars == <<truncVars, sizeVars, secVars, maskVars, lifespanVars, corsVars, builderVars, accVars, dispatchVars, exportVars, keysExportVars, lockVars, tableVars, scrapeVars>>
notTruncVars ==
    <<coreVars, sizeVars, secVars, maskVars, lifespanVars, corsVars, builderVars, accVars, dispatchVars, exportVars, keysExportVars, lockVars, tableVars, scrapeVars>>
notSizeVars ==
    <<coreVars, truncVars, secVars, maskVars, lifespanVars, corsVars, builderVars, accVars, dispatchVars, exportVars, keysExportVars, lockVars, tableVars, scrapeVars>>
notSecVars ==
    <<coreVars, truncVars, sizeVars, maskVars, lifespanVars, corsVars, builderVars, accVars, dispatchVars, exportVars, keysExportVars, lockVars, tableVars, scrapeVars>>
notMaskVars ==
    <<coreVars, truncVars, sizeVars, secVars, lifespanVars, corsVars, builderVars, accVars, dispatchVars, exportVars, keysExportVars, lockVars, tableVars, scrapeVars>>
notLifespanVars ==
    <<coreVars, truncVars, sizeVars, secVars, maskVars, corsVars, builderVars, accVars, dispatchVars, exportVars, keysExportVars, lockVars, tableVars, scrapeVars>>
notCorsVars ==
    <<coreVars, truncVars, sizeVars, secVars, maskVars, lifespanVars, builderVars, accVars, dispatchVars, exportVars, keysExportVars, lockVars, tableVars, scrapeVars>>
notBuilderVars ==
    <<coreVars, truncVars, sizeVars, secVars, maskVars, lifespanVars, corsVars, accVars, dispatchVars, exportVars, keysExportVars, lockVars, tableVars, scrapeVars>>
notAccVars ==
    <<coreVars, truncVars, sizeVars, secVars, maskVars, lifespanVars, corsVars, builderVars, dispatchVars, exportVars, keysExportVars, lockVars, tableVars, scrapeVars>>
notDispatchVars ==
    <<coreVars, truncVars, sizeVars, secVars, maskVars, lifespanVars, corsVars, builderVars, accVars, exportVars, keysExportVars, lockVars, tableVars, scrapeVars>>
notExportVars ==
    <<coreVars, truncVars, sizeVars, secVars, maskVars, lifespanVars, corsVars, builderVars, accVars, dispatchVars, keysExportVars, lockVars, tableVars, scrapeVars>>
notKeysExportVars ==
    <<coreVars, truncVars, sizeVars, secVars, maskVars, lifespanVars, corsVars, builderVars, accVars, dispatchVars, exportVars, lockVars, tableVars, scrapeVars>>
notLockVars ==
    <<coreVars, truncVars, sizeVars, secVars, maskVars, lifespanVars, corsVars, builderVars, accVars, dispatchVars, exportVars, keysExportVars, tableVars, scrapeVars>>
notTableVars ==
    <<coreVars, truncVars, sizeVars, secVars, maskVars, lifespanVars, corsVars, builderVars, accVars, dispatchVars, exportVars, keysExportVars, lockVars, scrapeVars>>
notScrapeVars ==
    <<coreVars, truncVars, sizeVars, secVars, maskVars, lifespanVars, corsVars, builderVars, accVars, dispatchVars, exportVars, keysExportVars, lockVars, tableVars>>
notTableScrapeVars ==
    <<coreVars, truncVars, sizeVars, secVars, maskVars, lifespanVars, corsVars, builderVars, accVars, dispatchVars, exportVars, keysExportVars, lockVars>>
vars == <<coreVars, extVars>>

InitCounter ==
    /\ ctrValue = 0
    /\ ctrLock = 0
    /\ cpc = [t \in Threads |-> "idle"]
    /\ carg = [t \in Threads |-> 0]
    /\ cloc = [t \in Threads |-> 0]
    /\ cIssued = <<>>

InitHist ==
    /\ hist = NewHistogram
    /\ hLock = 0
    /\ hpc = [t \in Threads |-> "idle"]
    /\ harg = [t \in Threads |-> 0]
    /\ hObs = <<>>

InitRegistry ==
    /\ reg = NewRegistry(AppName)
    /\ held = [f \in Families |-> <<>>]
    /\ regOps = 0

InitMiddleware ==
    /\ rq = [i \in 1..MaxRequests |-> NoRequest]
    /\ nArrived = 0

InitCore == InitCounter /\ InitHist /\ InitRegistry /\ InitMiddleware
InitExt ==
    /\ InitTruncate
    /\ InitMaxSize
    /\ InitSecurity
    /\ InitMask
    /\ InitLifespan
    /\ InitCors
    /\ InitBuilder
    /\ InitAccessor
    /\ InitDispatch
    /\ InitExportReader
    /\ InitKeysExport
    /\ InitLocks
    /\ InitTable
    /\ InitScrape
Init == InitCore /\ InitExt

\* ------------------------------------------------- Counter.inc, by thread
IncCall(t, a) ==
    /\ cpc[t] = "idle"
    /\ Len(cIssued) < MaxIncCalls
    /\ carg' = [carg EXCEPT ![t] = IncAmount(a)]
    /\ cIssued' = Append(cIssued, IncAmount(a))
    /\ cpc' = [cpc EXCEPT ![t] = "acquire"]
    /\ UNCHANGED <<ctrValue, ctrLock, cloc>>

\* with self._lock:
IncAcquire(t) ==
    /\ cpc[t] = "acquire"
    /\ LockFree(ctrLock)
    /\ ctrLock' = t
    /\ cpc' = [cpc EXCEPT ![t] = "load"]
    /\ UNCHANGED <<ctrValue, carg, cloc, cIssued>>

\* self._value += value, the read
IncLoad(t) ==
    /\ cpc[t] = "load"
    /\ cloc' = [cloc EXCEPT ![t] = ctrValue]
    /\ cpc' = [cpc EXCEPT ![t] = "store"]
    /\ UNCHANGED <<ctrValue, ctrLock, carg, cIssued>>

\* self._value += value, the write
IncStore(t) ==
    /\ cpc[t] = "store"
    /\ ctrValue' = cloc[t] + carg[t]
    /\ cpc' = [cpc EXCEPT ![t] = "release"]
    /\ UNCHANGED <<ctrLock, carg, cloc, cIssued>>

IncRelease(t) ==
    /\ cpc[t] = "release"
    /\ ctrLock' = 0
    /\ cpc' = [cpc EXCEPT ![t] = "idle"]
    /\ UNCHANGED <<ctrValue, carg, cloc, cIssued>>

NextCounter ==
    \/ \E t \in Threads, a \in IncArgs : IncCall(t, a) /\ UNCHANGED <<histVars, regVars, mwVars, extVars>>
    \/ \E t \in Threads : IncAcquire(t) /\ UNCHANGED <<histVars, regVars, mwVars, extVars>>
    \/ \E t \in Threads : IncLoad(t) /\ UNCHANGED <<histVars, regVars, mwVars, extVars>>
    \/ \E t \in Threads : IncStore(t) /\ UNCHANGED <<histVars, regVars, mwVars, extVars>>
    \/ \E t \in Threads : IncRelease(t) /\ UNCHANGED <<histVars, regVars, mwVars, extVars>>

SpecCounter == Init /\ [][NextCounter]_vars

\* --------------------------------------------- Histogram.observe, by thread
ObserveCall(t, v) ==
    /\ hpc[t] = "idle"
    /\ Len(hObs) < MaxObserve
    /\ harg' = [harg EXCEPT ![t] = v]
    /\ hObs' = Append(hObs, v)
    /\ hpc' = [hpc EXCEPT ![t] = "acquire"]
    /\ UNCHANGED <<hist, hLock>>

ObserveAcquire(t) ==
    /\ hpc[t] = "acquire"
    /\ LockFree(hLock)
    /\ hLock' = t
    /\ hpc' = [hpc EXCEPT ![t] = "sum"]
    /\ UNCHANGED <<hist, harg, hObs>>

ObserveSum(t) ==
    /\ hpc[t] = "sum"
    /\ hist' = HistAddSum(hist, harg[t])
    /\ hpc' = [hpc EXCEPT ![t] = "count"]
    /\ UNCHANGED <<hLock, harg, hObs>>

ObserveCount(t) ==
    /\ hpc[t] = "count"
    /\ hist' = HistIncCount(hist)
    /\ hpc' = [hpc EXCEPT ![t] = "tally"]
    /\ UNCHANGED <<hLock, harg, hObs>>

ObserveTally(t) ==
    /\ hpc[t] = "tally"
    /\ hist' = HistTally(hist, harg[t])
    /\ hpc' = [hpc EXCEPT ![t] = "release"]
    /\ UNCHANGED <<hLock, harg, hObs>>

ObserveRelease(t) ==
    /\ hpc[t] = "release"
    /\ hLock' = 0
    /\ hpc' = [hpc EXCEPT ![t] = "idle"]
    /\ UNCHANGED <<hist, harg, hObs>>

NextHist ==
    \/ \E t \in Threads, v \in ObserveValues : ObserveCall(t, v) /\ UNCHANGED <<counterVars, regVars, mwVars, extVars>>
    \/ \E t \in Threads : ObserveAcquire(t) /\ UNCHANGED <<counterVars, regVars, mwVars, extVars>>
    \/ \E t \in Threads : ObserveSum(t) /\ UNCHANGED <<counterVars, regVars, mwVars, extVars>>
    \/ \E t \in Threads : ObserveCount(t) /\ UNCHANGED <<counterVars, regVars, mwVars, extVars>>
    \/ \E t \in Threads : ObserveTally(t) /\ UNCHANGED <<counterVars, regVars, mwVars, extVars>>
    \/ \E t \in Threads : ObserveRelease(t) /\ UNCHANGED <<counterVars, regVars, mwVars, extVars>>

SpecHist == Init /\ [][NextHist]_vars

\* ------------------------------- application code working on a registry
\* registry.get_request_count(method, path, status), the counter kept
CallGetRequestCount(k) ==
    LET res == GetRequestCount(reg, k[1], k[2], k[3])
    IN  /\ regOps < MaxRegistryOps
        /\ reg' = res.reg
        /\ held' = [held EXCEPT ![FamCount] = Append(@, <<k, res.ref>>)]
        /\ regOps' = regOps + 1

CallGetRequestLatency(k) ==
    LET res == GetRequestLatency(reg, k[1], k[2])
    IN  /\ regOps < MaxRegistryOps
        /\ reg' = res.reg
        /\ held' = [held EXCEPT ![FamLatency] = Append(@, <<k, res.ref>>)]
        /\ regOps' = regOps + 1

CallGetRequestsInProgress(k) ==
    LET res == GetRequestsInProgress(reg, k[1], k[2])
    IN  /\ regOps < MaxRegistryOps
        /\ reg' = res.reg
        /\ held' = [held EXCEPT ![FamInProgress] = Append(@, <<k, res.ref>>)]
        /\ regOps' = regOps + 1

CallGetErrorCount(k) ==
    LET res == GetErrorCount(reg, k[1], k[2], k[3])
    IN  /\ regOps < MaxRegistryOps
        /\ reg' = res.reg
        /\ held' = [held EXCEPT ![FamErrors] = Append(@, <<k, res.ref>>)]
        /\ regOps' = regOps + 1

\* the primitives of a family that application code holds
HeldIn(fam) == {held[fam][i][2] : i \in DOMAIN held[fam]}

\* counter.inc() on a counter an accessor returned earlier
HeldCounterInc(h) ==
    /\ regOps < MaxRegistryOps
    /\ reg' = CounterInc(reg, h, 1)
    /\ regOps' = regOps + 1
    /\ UNCHANGED held

\* histogram.observe(v) on a histogram an accessor returned earlier
HeldObserve(h, v) ==
    /\ regOps < MaxRegistryOps
    /\ reg' = HistObserveAt(reg, h, v)
    /\ regOps' = regOps + 1
    /\ UNCHANGED held

\* gauge.inc() / gauge.dec() on a gauge an accessor returned earlier
HeldGaugeInc(h) ==
    /\ regOps < MaxRegistryOps
    /\ reg' = GaugeInc(reg, h, 1)
    /\ regOps' = regOps + 1
    /\ UNCHANGED held

HeldGaugeDec(h) ==
    /\ regOps < MaxRegistryOps
    /\ reg' = GaugeDec(reg, h, 1)
    /\ regOps' = regOps + 1
    /\ UNCHANGED held

\* registry.set_app_info("1.0.0", "3.12.0")
SetAppInfo ==
    /\ regOps < MaxRegistryOps
    /\ reg' = SetAppInfoOn(reg, "1.0.0", "3.12.0")
    /\ regOps' = regOps + 1
    /\ UNCHANGED held

NextRegistry ==
    \/ \E k \in DirectCountKeys : CallGetRequestCount(k) /\ UNCHANGED <<counterVars, histVars, mwVars, extVars>>
    \/ \E k \in DirectPairKeys : CallGetRequestLatency(k) /\ UNCHANGED <<counterVars, histVars, mwVars, extVars>>
    \/ \E k \in DirectPairKeys : CallGetRequestsInProgress(k) /\ UNCHANGED <<counterVars, histVars, mwVars, extVars>>
    \/ \E k \in DirectErrorKeys : CallGetErrorCount(k) /\ UNCHANGED <<counterVars, histVars, mwVars, extVars>>
    \/ \E h \in HeldIn(FamCount) \cup HeldIn(FamErrors) :
          HeldCounterInc(h) /\ UNCHANGED <<counterVars, histVars, mwVars, extVars>>
    \/ \E h \in HeldIn(FamLatency), v \in DirectObserveValues :
          HeldObserve(h, v) /\ UNCHANGED <<counterVars, histVars, mwVars, extVars>>
    \/ \E h \in HeldIn(FamInProgress) : HeldGaugeInc(h) /\ UNCHANGED <<counterVars, histVars, mwVars, extVars>>
    \/ \E h \in HeldIn(FamInProgress) : HeldGaugeDec(h) /\ UNCHANGED <<counterVars, histVars, mwVars, extVars>>
    \/ SetAppInfo /\ UNCHANGED <<counterVars, histVars, mwVars, extVars>>

SpecRegistry == Init /\ [][NextRegistry]_vars

\* ------------------------------------------- MetricsMiddleware.dispatch
\* dispatch from its entry to `await call_next(request)`
Dispatch(method, path) ==
    LET i == nArrived + 1
        tmpl == GetPathTemplate(method, path)
        res == TrackInProgress(reg, method, tmpl)
    IN  /\ nArrived < MaxRequests
        /\ nArrived' = i
        /\ IF IsExcluded(path)
           THEN /\ rq' = [rq EXCEPT ![i] = [NoRequest EXCEPT !.pc = "passthrough",
                                               !.method = method, !.path = path]]
                /\ reg' = reg
           ELSE /\ rq' = [rq EXCEPT ![i] = [NoRequest EXCEPT !.pc = "awaiting",
                                               !.method = method, !.path = path,
                                               !.tmpl = tmpl, !.gauge = res.ref]]
                /\ reg' = res.reg

\* return await call_next(request), for an excluded path
PassThroughReturns(i, status) ==
    /\ rq[i].pc = "passthrough"
    /\ rq' = [rq EXCEPT ![i].pc = "done", ![i].down = ResponseOf(status),
                        ![i].result = ResponseOf(status)]
    /\ UNCHANGED <<reg, nArrived>>

PassThroughRaises(i, t) ==
    /\ rq[i].pc = "passthrough"
    /\ rq' = [rq EXCEPT ![i].pc = "done", ![i].down = RaiseOf(t),
                        ![i].result = RaiseOf(t)]
    /\ UNCHANGED <<reg, nArrived>>

\* call_next returns a response: status_code = response.status_code, the
\* finally block, return response
DownstreamReturns(i, status, duration) ==
    /\ rq[i].pc = "awaiting"
    /\ reg' = Finally(reg, rq[i], status, "", duration)
    /\ rq' = [rq EXCEPT ![i].pc = "done", ![i].down = ResponseOf(status),
                        ![i].result = ResponseOf(status)]
    /\ UNCHANGED nArrived

\* call_next raises: the except clause if it applies, the finally block with
\* status_code still 500, and the exception goes on to the caller
DownstreamRaises(i, t, duration) ==
    /\ rq[i].pc = "awaiting"
    /\ reg' = Finally(reg, rq[i], DefaultStatus, CaughtErrorType(t), duration)
    /\ rq' = [rq EXCEPT ![i].pc = "done", ![i].down = RaiseOf(t),
                        ![i].result = RaiseOf(t)]
    /\ UNCHANGED nArrived

NextMiddleware ==
    \/ \E tg \in RequestTargets :
          Dispatch(tg[1], tg[2]) /\ UNCHANGED <<counterVars, histVars, directVars, extVars>>
    \/ \E i \in 1..MaxRequests, st \in Statuses :
          PassThroughReturns(i, st) /\ UNCHANGED <<counterVars, histVars, directVars, extVars>>
    \/ \E i \in 1..MaxRequests, t \in ExcTypes :
          PassThroughRaises(i, t) /\ UNCHANGED <<counterVars, histVars, directVars, extVars>>
    \/ \E i \in 1..MaxRequests, st \in Statuses, d \in Durations :
          DownstreamReturns(i, st, d) /\ UNCHANGED <<counterVars, histVars, directVars, extVars>>
    \/ \E i \in 1..MaxRequests, t \in ExcTypes, d \in Durations :
          DownstreamRaises(i, t, d) /\ UNCHANGED <<counterVars, histVars, directVars, extVars>>

SpecMiddleware == Init /\ [][NextMiddleware]_vars

\* ---------------------------- a caller of truncate_strings_in_structure
\* the caller builds its payload: {} or []
MakeContainer(kind) ==
    /\ tpc = "build"
    /\ Len(tHeap) < MaxContainers
    /\ tHeap' = Append(tHeap, NewContainer(kind, <<>>))
    /\ UNCHANGED <<tBefore, tArg, tResult, tpc>>

\* lst.append(v); v is a leaf or a container built earlier
ListAppend(a, v) ==
    /\ tpc = "build"
    /\ tHeap[a].kind = "list"
    /\ CountItems(tHeap) < MaxItems
    /\ tHeap' = [tHeap EXCEPT ![a].items = Append(@, v)]
    /\ UNCHANGED <<tBefore, tArg, tResult, tpc>>

\* d[key] = v
DictStore(a, key, v) ==
    /\ tpc = "build"
    /\ tHeap[a].kind = "dict"
    /\ CountItems(tHeap) < MaxItems
    /\ tHeap' = [tHeap EXCEPT ![a].items = DictSet(@, key, v)]
    /\ UNCHANGED <<tBefore, tArg, tResult, tpc>>

\* result = truncate_strings_in_structure(v, threshold)
CallTruncate(v, threshold) ==
    /\ tpc = "build"
    /\ \E r \in {TruncateValue(tHeap, v, threshold)} :
          /\ tHeap' = r.heap
          /\ tResult' = r.value
    /\ tBefore' = tHeap
    /\ tArg' = <<v, threshold>>
    /\ tpc' = "done"

EarlierRefs(a) == {RefVal(b) : b \in 1..(a - 1)}
AllRefs == {RefVal(b) : b \in DOMAIN tHeap}

NextTruncate ==
    \/ \E kind \in {"dict", "list"} : MakeContainer(kind) /\ UNCHANGED notTruncVars
    \/ \E a \in DOMAIN tHeap : \E v \in TruncLeaves \cup EarlierRefs(a) :
          ListAppend(a, v) /\ UNCHANGED notTruncVars
    \/ \E a \in DOMAIN tHeap : \E key \in TruncKeys : \E v \in TruncLeaves \cup EarlierRefs(a) :
          DictStore(a, key, v) /\ UNCHANGED notTruncVars
    \/ \E v \in TruncLeaves \cup AllRefs : \E threshold \in Thresholds :
          CallTruncate(v, threshold) /\ UNCHANGED notTruncVars

SpecTruncate == Init /\ [][NextTruncate]_vars


\* ------------------------------------------ MaxRequestSizeMiddleware.__call__
\* app.add_middleware(MaxRequestSizeMiddleware, max_size=...)
MaxSizeInit(max_size) ==
    /\ szMax = NotInstalled
    /\ szMax' = max_size
    /\ UNCHANGED szLog

MaxSizeCall(scope) ==
    /\ szMax # NotInstalled
    /\ Len(szLog) < MaxSizeCalls
    /\ szLog' = Append(szLog, [scope |-> scope, out |-> MaxRequestSizeCall(szMax, scope)])
    /\ UNCHANGED szMax

NextMaxSize ==
    \/ \E max_size \in MaxSizes : MaxSizeInit(max_size) /\ UNCHANGED notSizeVars
    \/ \E scope \in SizeScopes : MaxSizeCall(scope) /\ UNCHANGED notSizeVars

SpecMaxSize == Init /\ [][NextMaxSize]_vars


\* ------------------------------------------------ SecurityHeadersMiddleware
\* app.add_middleware(SecurityHeadersMiddleware, ...)
SecurityInit(cfg) ==
    /\ secCfg = NoSecurityConfig
    /\ secCfg' = cfg
    /\ UNCHANGED secLog

SecurityCall(request) ==
    /\ secCfg # NoSecurityConfig
    /\ Len(secLog) < MaxSecCalls
    /\ secLog' = Append(secLog, [request |-> request,
                                 response |-> SecurityDispatch(secCfg, request, EndpointResponse)])
    /\ UNCHANGED secCfg

NextSecurity ==
    \/ \E cfg \in SecurityConfigs : SecurityInit(cfg) /\ UNCHANGED notSecVars
    \/ \E request \in SecurityRequests : SecurityCall(request) /\ UNCHANGED notSecVars

SpecSecurity == Init /\ [][NextSecurity]_vars


\* ------------------------------------------ a caller of mask_sensitive_data
MaskMakeContainer(kind) ==
    /\ mpc = "build"
    /\ Len(mHeap) < MaxContainers
    /\ mHeap' = Append(mHeap, NewContainer(kind, <<>>))
    /\ UNCHANGED <<mBefore, mArg, mResult, mpc>>

MaskListAppend(a, v) ==
    /\ mpc = "build"
    /\ mHeap[a].kind = "list"
    /\ CountItems(mHeap) < MaxItems
    /\ mHeap' = [mHeap EXCEPT ![a].items = Append(@, v)]
    /\ UNCHANGED <<mBefore, mArg, mResult, mpc>>

MaskDictStore(a, key, v) ==
    /\ mpc = "build"
    /\ mHeap[a].kind = "dict"
    /\ CountItems(mHeap) < MaxItems
    /\ mHeap' = [mHeap EXCEPT ![a].items = DictSet(@, key, v)]
    /\ UNCHANGED <<mBefore, mArg, mResult, mpc>>

\* result = mask_sensitive_data(data, sensitive_fields)
CallMask(data, sensitive_fields) ==
    /\ mpc = "build"
    /\ \E r \in {MaskSensitiveData(mHeap, data, sensitive_fields)} :
          /\ mHeap' = r.heap
          /\ mResult' = r.value
    /\ mBefore' = mHeap
    /\ mArg' = <<data, sensitive_fields>>
    /\ mpc' = "done"

MaskRefs == {RefVal(b) : b \in DOMAIN mHeap}

NextMask ==
    \/ \E kind \in {"dict", "list"} : MaskMakeContainer(kind) /\ UNCHANGED notMaskVars
    \/ \E a \in DOMAIN mHeap : \E v \in MaskLeaves \cup EarlierRefs(a) :
          MaskListAppend(a, v) /\ UNCHANGED notMaskVars
    \/ \E a \in DOMAIN mHeap : \E key \in MaskKeys : \E v \in MaskLeaves \cup EarlierRefs(a) :
          MaskDictStore(a, key, v) /\ UNCHANGED notMaskVars
    \/ \E data \in MaskLeaves \cup MaskRefs : \E sensitive_fields \in SensitiveFieldsArgs :
          CallMask(data, sensitive_fields) /\ UNCHANGED notMaskVars

SpecMask == Init /\ [][NextMask]_vars


\* ----------------------------------------------------- create_app.lifespan
\* app = create_app(routers, settings, startup_coroutines=..., shutdown_coroutines=...)
CreateApp(startup_coroutines, shutdown_coroutines, graceful_timeout) ==
    /\ lsPc = "none"
    /\ lsApp' = [startup_coroutines |-> startup_coroutines,
                 shutdown_coroutines |-> shutdown_coroutines,
                 graceful_timeout |-> graceful_timeout]
    /\ lsPc' = "created"
    /\ UNCHANGED <<lsIdx, lsLog>>

\* the server enters the lifespan: loggers are set up, the startup loop begins
LifespanEnter ==
    /\ lsPc = "created"
    /\ lsPc' = "startup"
    /\ lsIdx' = 1
    /\ UNCHANGED <<lsApp, lsLog>>

\* for coroutine in startup_coroutines: await coroutine(app) / coroutine()
StartupCall ==
    /\ lsPc = "startup"
    /\ lsIdx <= Len(lsApp.startup_coroutines)
    /\ lsLog' = Append(lsLog, CallEvent(lsApp.startup_coroutines[lsIdx]))
    /\ lsPc' = "startup_await"
    /\ UNCHANGED <<lsApp, lsIdx>>

StartupReturns ==
    /\ lsPc = "startup_await"
    /\ lsLog' = Append(lsLog, ReturnEvent(lsApp.startup_coroutines[lsIdx]))
    /\ lsIdx' = lsIdx + 1
    /\ lsPc' = "startup"
    /\ UNCHANGED lsApp

\* the coroutine raises: the exception leaves the lifespan
StartupRaises ==
    /\ lsPc = "startup_await"
    /\ lsLog' = Append(lsLog, RaiseEvent(lsApp.startup_coroutines[lsIdx]))
    /\ lsPc' = "failed"
    /\ UNCHANGED <<lsApp, lsIdx>>

\* yield: the application serves
LifespanYield ==
    /\ lsPc = "startup"
    /\ lsIdx > Len(lsApp.startup_coroutines)
    /\ lsLog' = Append(lsLog, YieldEvent)
    /\ lsPc' = "serving"
    /\ UNCHANGED <<lsApp, lsIdx>>

\* serving ends with an exception, which is thrown into the lifespan at the
\* yield: nothing after the yield runs
LifespanThrown ==
    /\ lsPc = "serving"
    /\ lsLog' = Append(lsLog, <<"raise", "", "">>)
    /\ lsPc' = "failed"
    /\ UNCHANGED <<lsApp, lsIdx>>

\* serving ends and the lifespan resumes after the yield
LifespanResume ==
    /\ lsPc = "serving"
    /\ IF WaitsBeforeShutdown(lsApp.graceful_timeout)
       THEN /\ lsLog' = lsLog \o <<ResumeEvent, SleepEvent>>
            /\ lsPc' = "sleep"
            /\ UNCHANGED lsIdx
       ELSE /\ lsLog' = Append(lsLog, ResumeEvent)
            /\ lsPc' = "shutdown"
            /\ lsIdx' = 1
    /\ UNCHANGED lsApp

\* asyncio.sleep(graceful_timeout) is over
SleepOver ==
    /\ lsPc = "sleep"
    /\ lsLog' = Append(lsLog, WokenEvent)
    /\ lsPc' = "shutdown"
    /\ lsIdx' = 1
    /\ UNCHANGED lsApp

\* for coroutine in shutdown_coroutines: await coroutine(app) / coroutine()
ShutdownCall ==
    /\ lsPc = "shutdown"
    /\ lsIdx <= Len(lsApp.shutdown_coroutines)
    /\ lsLog' = Append(lsLog, CallEvent(lsApp.shutdown_coroutines[lsIdx]))
    /\ lsPc' = "shutdown_await"
    /\ UNCHANGED <<lsApp, lsIdx>>

ShutdownReturns ==
    /\ lsPc = "shutdown_await"
    /\ lsLog' = Append(lsLog, ReturnEvent(lsApp.shutdown_coroutines[lsIdx]))
    /\ lsIdx' = lsIdx + 1
    /\ lsPc' = "shutdown"
    /\ UNCHANGED lsApp

ShutdownRaises ==
    /\ lsPc = "shutdown_await"
    /\ lsLog' = Append(lsLog, RaiseEvent(lsApp.shutdown_coroutines[lsIdx]))
    /\ lsPc' = "failed"
    /\ UNCHANGED <<lsApp, lsIdx>>

LifespanExit ==
    /\ lsPc = "shutdown"
    /\ lsIdx > Len(lsApp.shutdown_coroutines)
    /\ lsPc' = "done"
    /\ UNCHANGED <<lsApp, lsIdx, lsLog>>

NextLifespan ==
    \/ \E su \in ListsOver(StartupFns, MaxCoroutines), sd \in ListsOver(ShutdownFns, MaxCoroutines),
          gt \in GracefulTimeouts : CreateApp(su, sd, gt) /\ UNCHANGED notLifespanVars
    \/ LifespanEnter /\ UNCHANGED notLifespanVars
    \/ StartupCall /\ UNCHANGED notLifespanVars
    \/ StartupReturns /\ UNCHANGED notLifespanVars
    \/ StartupRaises /\ UNCHANGED notLifespanVars
    \/ LifespanYield /\ UNCHANGED notLifespanVars
    \/ LifespanThrown /\ UNCHANGED notLifespanVars
    \/ LifespanResume /\ UNCHANGED notLifespanVars
    \/ SleepOver /\ UNCHANGED notLifespanVars
    \/ ShutdownCall /\ UNCHANGED notLifespanVars
    \/ ShutdownReturns /\ UNCHANGED notLifespanVars
    \/ ShutdownRaises /\ UNCHANGED notLifespanVars
    \/ LifespanExit /\ UNCHANGED notLifespanVars

SpecLifespan == Init /\ [][NextLifespan]_vars


\* ----------------------------------- an application and its CORS middleware
\* create_app(routers, BootstrapSettings(stage=stage, cors=cors))
CorsCreateApp(stage, cors) ==
    /\ corsApp = NoCorsApp
    /\ corsApp' = [stage |-> stage, cors |-> cors, middleware |-> CorsMiddlewareArgs(stage, cors)]
    /\ UNCHANGED corsLog

\* client.get("/test", headers={"Origin": origin})
CorsRequest(origin) ==
    /\ corsApp # NoCorsApp
    /\ Len(corsLog) < MaxCorsCalls
    /\ corsLog' = Append(corsLog, [origin |-> origin,
                                   allow_origin |-> AllowOriginHeader(corsApp.middleware, origin)])
    /\ UNCHANGED corsApp

NextCors ==
    \/ \E stage \in Stages, cors \in ConfiguredCors : CorsCreateApp(stage, cors) /\ UNCHANGED notCorsVars
    \/ \E origin \in RequestOrigins : CorsRequest(origin) /\ UNCHANGED notCorsVars

SpecCors == Init /\ [][NextCors]_vars


\* ---------------------------------------------------------- FastAPIBootstrap
\* a configuration method: it changes the builder and returns self
Configure(b) ==
    /\ bldPc = "config"
    /\ Len(bldRet) < MaxChain
    /\ bld' = b
    /\ bldRet' = Append(bldRet, BuilderId)
    /\ UNCHANGED <<bldOut, bldPc>>

BuilderTitle(title) == Configure([bld EXCEPT !.title = title])
BuilderVersion(version) == Configure([bld EXCEPT !.version = version])
BuilderStage(stage) == Configure([bld EXCEPT !.stage = StageOf(stage)])
BuilderPrefix(prefix) == Configure([bld EXCEPT !.prefix_url = prefix])
BuilderWithMetrics == Configure([bld EXCEPT !.enable_metrics = TRUE])
BuilderAddRouter(router, prefix) ==
    Configure([bld EXCEPT !.routers = Append(@, [router |-> router, prefix |-> prefix])])

Build ==
    /\ bldPc = "config"
    /\ bldOut' = BuildApp(bld)
    /\ bldPc' = "built"
    /\ UNCHANGED <<bld, bldRet>>

NextBuilder ==
    \/ \E title \in BuilderTitles : BuilderTitle(title) /\ UNCHANGED notBuilderVars
    \/ \E version \in BuilderVersions : BuilderVersion(version) /\ UNCHANGED notBuilderVars
    \/ \E stage \in BuilderStageArgs : BuilderStage(stage) /\ UNCHANGED notBuilderVars
    \/ \E prefix \in BuilderPrefixes : BuilderPrefix(prefix) /\ UNCHANGED notBuilderVars
    \/ BuilderWithMetrics /\ UNCHANGED notBuilderVars
    \/ \E router \in BuilderRouters, prefix \in RouterPrefixes :
          BuilderAddRouter(router, prefix) /\ UNCHANGED notBuilderVars
    \/ Build /\ UNCHANGED notBuilderVars

SpecBuilder == Init /\ [][NextBuilder]_vars


\* ------------------------ get_request_count and its siblings, by thread
\* a thread calls the accessor of family fam: key = (...)
AccCall(t, fam, key) ==
    /\ accPc[t] = "idle"
    /\ accCalls < MaxAccessorCalls
    /\ accCalls' = accCalls + 1
    /\ accArg' = [accArg EXCEPT ![t] = <<fam, key>>]
    /\ accSlow' = [accSlow EXCEPT ![t] = FALSE]
    /\ accPc' = [accPc EXCEPT ![t] = "check"]
    /\ UNCHANGED <<accDict, accHeap, accLock, accRef, accLog>>

\* if key not in self._<family>:   (no lock held)
AccCheck(t) ==
    /\ accPc[t] = "check"
    /\ \E missing \in {~HasKey(accDict[accArg[t][1]], accArg[t][2])} :
        /\ accPc' = [accPc EXCEPT ![t] = IF missing THEN "acquire" ELSE "return"]
        /\ accSlow' = [accSlow EXCEPT ![t] = missing]
    /\ UNCHANGED <<accDict, accHeap, accLock, accArg, accRef, accLog, accCalls>>

\* with self._lock:   (entry)
AccAcquire(t) ==
    /\ accPc[t] = "acquire"
    /\ accLock = 0
    /\ accLock' = t
    /\ accPc' = [accPc EXCEPT ![t] = "recheck"]
    /\ UNCHANGED <<accDict, accHeap, accArg, accSlow, accRef, accLog, accCalls>>

\* if key not in self._<family>:   (lock held)
AccRecheck(t) ==
    /\ accPc[t] = "recheck"
    /\ accPc' = [accPc EXCEPT ![t] =
           IF KeyMissingUnderLock(accDict[accArg[t][1]], accArg[t][2])
           THEN "create" ELSE "release"]
    /\ UNCHANGED <<accDict, accHeap, accLock, accArg, accSlow, accRef, accLog, accCalls>>

\* self._<family>[key] = Counter()
AccCreate(t) ==
    /\ accPc[t] = "create"
    /\ accHeap' = Append(accHeap, NewPrimitive(accArg[t][1]))
    /\ accDict' = [accDict EXCEPT ![accArg[t][1]] = Put(@, accArg[t][2], Len(accHeap) + 1)]
    /\ accPc' = [accPc EXCEPT ![t] = "release"]
    /\ UNCHANGED <<accLock, accArg, accSlow, accRef, accLog, accCalls>>

\* with self._lock:   (exit)
AccRelease(t) ==
    /\ accPc[t] = "release"
    /\ accLock' = 0
    /\ accPc' = [accPc EXCEPT ![t] = "return"]
    /\ UNCHANGED <<accDict, accHeap, accArg, accSlow, accRef, accLog, accCalls>>

\* return self._<family>[key]
AccReturn(t) ==
    /\ accPc[t] = "return"
    /\ accRef' = [accRef EXCEPT ![t] = At(accDict[accArg[t][1]], accArg[t][2])]
    /\ accPc' = [accPc EXCEPT ![t] = "holding"]
    /\ UNCHANGED <<accDict, accHeap, accLock, accArg, accSlow, accLog, accCalls>>

\* the caller records through the primitive it was handed: .inc() / .observe(v)
AccUse(t) ==
    /\ accPc[t] = "holding"
    /\ accHeap' = [accHeap EXCEPT ![accRef[t]].n = @ + 1]
    /\ accLog' = Append(accLog, [fam |-> accArg[t][1], key |-> accArg[t][2], ref |-> accRef[t]])
    /\ accPc' = [accPc EXCEPT ![t] = "idle"]
    /\ UNCHANGED <<accDict, accLock, accArg, accSlow, accRef, accCalls>>

NextAccessor ==
    \/ \E t \in Threads, fam \in Families : \E key \in AccessorKeys(fam) :
           AccCall(t, fam, key) /\ UNCHANGED notAccVars
    \/ \E t \in Threads : AccCheck(t) /\ UNCHANGED notAccVars
    \/ \E t \in Threads : AccAcquire(t) /\ UNCHANGED notAccVars
    \/ \E t \in Threads : AccRecheck(t) /\ UNCHANGED notAccVars
    \/ \E t \in Threads : AccCreate(t) /\ UNCHANGED notAccVars
    \/ \E t \in Threads : AccRelease(t) /\ UNCHANGED notAccVars
    \/ \E t \in Threads : AccReturn(t) /\ UNCHANGED notAccVars
    \/ \E t \in Threads : AccUse(t) /\ UNCHANGED notAccVars

SpecAccessor == Init /\ [][NextAccessor]_vars


\* --------------------------------- MetricsMiddleware.dispatch, by statement
\* a frame runs from one await to the next without another frame in between
\* dispatch is entered: path, the exclusion test, method and path_template
DspEnter(method, path) ==
    LET i == dArrived + 1
    IN  /\ dRunning = 0
        /\ dArrived < MaxDispatches
        /\ dArrived' = i
        /\ IF IsExcluded(path)
           THEN /\ dFrames' = [dFrames EXCEPT ![i] =
                       [NoFrame EXCEPT !.pc = "passthrough", !.method = method, !.path = path]]
                /\ dRunning' = 0
           ELSE /\ dFrames' = [dFrames EXCEPT ![i] =
                       [NoFrame EXCEPT !.pc = "inc", !.method = method, !.path = path,
                                       !.tmpl = GetPathTemplate(method, path)]]
                /\ dRunning' = i
        /\ UNCHANGED <<dReg, dLog>>

\* return await call_next(request), for an excluded path
DspPassThrough(i, outcome) ==
    /\ dRunning = 0
    /\ dFrames[i].pc = "passthrough"
    /\ dFrames' = [dFrames EXCEPT ![i].pc = "done", ![i].pending = outcome,
                                  ![i].result = outcome]
    /\ dLog' = Append(dLog, <<i, "delivered">>)
    /\ UNCHANGED <<dReg, dRunning, dArrived>>

\* in_progress = ...; in_progress.inc(); start_time, status_code = 500,
\* error_type = None
DspInc(i) ==
    /\ dRunning = i
    /\ dFrames[i].pc = "inc"
    /\ \E res \in {TrackInProgress(dReg, dFrames[i].method, dFrames[i].tmpl)} :
        /\ dReg' = res.reg
        /\ dFrames' = [dFrames EXCEPT ![i].pc = StatementAfter("inc"),
                                      ![i].gauge = res.ref,
                                      ![i].status_code = DefaultStatus,
                                      ![i].error_type = ""]
    /\ dLog' = Append(dLog, <<i, "gauge_inc">>)
    /\ UNCHANGED <<dRunning, dArrived>>

\* await call_next(request): downstream handling starts, the frame suspends
DspCallNext(i) ==
    /\ dRunning = i
    /\ dFrames[i].pc = "call_next"
    /\ dFrames' = [dFrames EXCEPT ![i].pc = StatementAfter("call_next")]
    /\ dLog' = Append(dLog, <<i, "downstream_invoked">>)
    /\ dRunning' = 0
    /\ UNCHANGED <<dReg, dArrived>>

\* call_next is over: status_code = response.status_code with `return
\* response` pending, or the except clause with the raise pending
DspResume(i, outcome) ==
    /\ dRunning = 0
    /\ dFrames[i].pc = "awaiting"
    /\ dFrames' = [dFrames EXCEPT
           ![i].pc = StatementAfter("awaiting"),
           ![i].pending = outcome,
           ![i].status_code = IF outcome.kind = "response" THEN outcome.status ELSE @,
           ![i].error_type = IF outcome.kind = "raise" THEN CaughtErrorType(outcome.exc) ELSE @]
    /\ dLog' = Append(dLog, <<i, "downstream_finished">>)
    /\ dRunning' = i
    /\ UNCHANGED <<dReg, dArrived>>

\* finally: duration = ...; get_request_latency(...).observe(duration)
DspObserve(i, duration) ==
    /\ dRunning = i
    /\ dFrames[i].pc = "observe"
    /\ dReg' = RecordDuration(dReg, dFrames[i].method, dFrames[i].tmpl, duration)
    /\ dFrames' = [dFrames EXCEPT ![i].pc = StatementAfter("observe")]
    /\ dLog' = Append(dLog, <<i, "duration_observed">>)
    /\ UNCHANGED <<dRunning, dArrived>>

\* finally: get_request_count(method, path_template, status_code).inc()
DspCount(i) ==
    /\ dRunning = i
    /\ dFrames[i].pc = "count"
    /\ dReg' = RecordCount(dReg, dFrames[i].method, dFrames[i].tmpl, dFrames[i].status_code)
    /\ dFrames' = [dFrames EXCEPT ![i].pc = StatementAfter("count")]
    /\ dLog' = Append(dLog, <<i, "request_counted">>)
    /\ UNCHANGED <<dRunning, dArrived>>

\* finally: if error_type or status_code >= 500: get_error_count(...).inc()
DspErrors(i) ==
    /\ dRunning = i
    /\ dFrames[i].pc = "errors"
    /\ \E r \in {RecordErrors(dReg, dFrames[i].method, dFrames[i].tmpl,
                              dFrames[i].status_code, dFrames[i].error_type)} :
        /\ dReg' = r
        /\ dLog' = IF r # dReg THEN Append(dLog, <<i, "error_counted">>) ELSE dLog
    /\ dFrames' = [dFrames EXCEPT ![i].pc = StatementAfter("errors")]
    /\ UNCHANGED <<dRunning, dArrived>>

\* finally: in_progress.dec()
DspDec(i) ==
    /\ dRunning = i
    /\ dFrames[i].pc = "dec"
    /\ dReg' = GaugeDec(dReg, dFrames[i].gauge, 1)
    /\ dFrames' = [dFrames EXCEPT ![i].pc = StatementAfter("dec")]
    /\ dLog' = Append(dLog, <<i, "gauge_dec">>)
    /\ UNCHANGED <<dRunning, dArrived>>

\* the finally block is over: the pending return or raise leaves dispatch
DspDeliver(i) ==
    /\ dRunning = i
    /\ dFrames[i].pc = "deliver"
    /\ dFrames' = [dFrames EXCEPT ![i].pc = StatementAfter("deliver"),
                                  ![i].result = dFrames[i].pending]
    /\ dLog' = Append(dLog, <<i, "delivered">>)
    /\ dRunning' = 0
    /\ UNCHANGED <<dReg, dArrived>>

NextDispatch ==
    \/ \E tg \in DispatchTargets : DspEnter(tg[1], tg[2]) /\ UNCHANGED notDispatchVars
    \/ \E i \in 1..MaxDispatches, o \in DownstreamOutcomes :
          DspPassThrough(i, o) /\ UNCHANGED notDispatchVars
    \/ \E i \in 1..MaxDispatches : DspInc(i) /\ UNCHANGED notDispatchVars
    \/ \E i \in 1..MaxDispatches : DspCallNext(i) /\ UNCHANGED notDispatchVars
    \/ \E i \in 1..MaxDispatches, o \in DownstreamOutcomes :
          DspResume(i, o) /\ UNCHANGED notDispatchVars
    \/ \E i \in 1..MaxDispatches, d \in Durations :
          DspObserve(i, d) /\ UNCHANGED notDispatchVars
    \/ \E i \in 1..MaxDispatches : DspCount(i) /\ UNCHANGED notDispatchVars
    \/ \E i \in 1..MaxDispatches : DspErrors(i) /\ UNCHANGED notDispatchVars
    \/ \E i \in 1..MaxDispatches : DspDec(i) /\ UNCHANGED notDispatchVars
    \/ \E i \in 1..MaxDispatches : DspDeliver(i) /\ UNCHANGED notDispatchVars

SpecDispatch == Init /\ [][NextDispatch]_vars


\* ------------------- export of one histogram while observe calls are made
\* The Histogram properties sum and count and get_bucket_counts take no
\* lock, so the reads of export go between the steps of a running observe.
\* for (method, path), histogram in sorted(self._request_latency.items()):
ExportHistogram ==
    /\ xpc = "idle"
    /\ xpc' = "buckets"
    /\ UNCHANGED xOut

\* bucket_counts = histogram.get_bucket_counts() and its lines
ExportBuckets ==
    /\ xpc = "buckets"
    /\ xOut' = [xOut EXCEPT !.buckets = GetBucketCounts(hist)]
    /\ xpc' = "inf"

\* the le="+Inf" line: {histogram.count}
ExportInf ==
    /\ xpc = "inf"
    /\ xOut' = [xOut EXCEPT !.inf = hist.count]
    /\ xpc' = "sum"

\* the _sum line: {histogram.sum}
ExportSum ==
    /\ xpc = "sum"
    /\ xOut' = [xOut EXCEPT !.sum = hist.sum]
    /\ xpc' = "count"

\* the _count line: {histogram.count}
ExportCount ==
    /\ xpc = "count"
    /\ xOut' = [xOut EXCEPT !.count = hist.count]
    /\ xpc' = "done"

ObserveStep ==
    \/ \E t \in Threads, v \in ObserveValues : ObserveCall(t, v)
    \/ \E t \in Threads : ObserveAcquire(t)
    \/ \E t \in Threads : ObserveSum(t)
    \/ \E t \in Threads : ObserveCount(t)
    \/ \E t \in Threads : ObserveTally(t)
    \/ \E t \in Threads : ObserveRelease(t)

NextExportRace ==
    \/ ObserveStep /\ UNCHANGED <<counterVars, regVars, mwVars, extVars>>
    \/ ExportHistogram /\ UNCHANGED notExportVars
    \/ ExportBuckets /\ UNCHANGED notExportVars
    \/ ExportInf /\ UNCHANGED notExportVars
    \/ ExportSum /\ UNCHANGED notExportVars
    \/ ExportCount /\ UNCHANGED notExportVars

SpecExportRace == Init /\ [][NextExportRace]_vars


\* -------------------- export on one thread while another creates label keys
\* export is called: lines = []
ExportCall ==
    /\ ePc = "idle"
    /\ ePc' = "test"
    /\ eFam' = 1
    /\ eBefore' = accDict
    /\ UNCHANGED eOut

\* if self._<family>:  -- an empty dict skips the block
ExportTest ==
    /\ ePc = "test"
    /\ IF accDict[BlockTested(ExportOrder[eFam])] # <<>>
       THEN ePc' = "items" /\ eFam' = eFam
       ELSE IF eFam < Len(ExportOrder)
       THEN ePc' = "test" /\ eFam' = eFam + 1
       ELSE ePc' = "returned" /\ eFam' = eFam
    /\ UNCHANGED <<eBefore, eOut>>

\* for key, primitive in sorted(self._<family>.items()): the list of the
\* items is built in one piece, the lines follow from that list
ExportItems ==
    /\ ePc = "items"
    /\ eOut' = eOut \o SeriesOf(ExportOrder[eFam], accDict[ExportOrder[eFam]])
    /\ IF eFam < Len(ExportOrder)
       THEN ePc' = "test" /\ eFam' = eFam + 1
       ELSE ePc' = "returned" /\ eFam' = eFam
    /\ UNCHANGED eBefore

\* the thread that creates keys and records through them
CreatorStep ==
    \/ \E fam \in Families : \E key \in AccessorKeys(fam) : AccCall(1, fam, key)
    \/ AccCheck(1)
    \/ AccAcquire(1)
    \/ AccRecheck(1)
    \/ AccCreate(1)
    \/ AccRelease(1)
    \/ AccReturn(1)
    \/ AccUse(1)

NextKeysExport ==
    \/ CreatorStep /\ UNCHANGED notAccVars
    \/ ExportCall /\ UNCHANGED notKeysExportVars
    \/ ExportTest /\ UNCHANGED notKeysExportVars
    \/ ExportItems /\ UNCHANGED notKeysExportVars

SpecKeysExport == Init /\ [][NextKeysExport]_vars


\* ------------- a bookkeeping step: registry.get_<family>(...).inc() etc.
\* A step is what dispatch, or application code, does for one series: the
\* accessor with the registry lock around the creation, then the update with
\* the primitive's lock around the change.  `await call_next(request)` lies
\* between two steps of dispatch.
LkCall(t, s) ==
    /\ lkPc[t] = "idle"
    /\ lkSteps < MaxLockSteps
    /\ lkSteps' = lkSteps + 1
    /\ lkArg' = [lkArg EXCEPT ![t] = s]
    /\ lkPc' = [lkPc EXCEPT ![t] = "check"]
    /\ UNCHANGED <<lkReg, lkPrim, lkStored, lkVal>>

\* if key not in self._<family>:
LkCheck(t) ==
    /\ lkPc[t] = "check"
    /\ lkPc' = [lkPc EXCEPT ![t] = IF lkArg[t] \in lkStored THEN "lock_prim" ELSE "lock_reg"]
    /\ UNCHANGED <<lkReg, lkPrim, lkStored, lkVal, lkArg, lkSteps>>

\* with self._lock:   (registry, entry)
LkAcquireReg(t) ==
    /\ lkPc[t] = "lock_reg"
    /\ lkReg = 0
    /\ lkReg' = t
    /\ lkPc' = [lkPc EXCEPT ![t] = "recheck"]
    /\ UNCHANGED <<lkPrim, lkStored, lkVal, lkArg, lkSteps>>

\* if key not in self._<family>: self._<family>[key] = Counter()
LkCreate(t) ==
    /\ lkPc[t] = "recheck"
    /\ lkStored' = lkStored \cup {lkArg[t]}
    /\ lkPc' = [lkPc EXCEPT ![t] = "unlock_reg"]
    /\ UNCHANGED <<lkReg, lkPrim, lkVal, lkArg, lkSteps>>

\* with self._lock:   (registry, exit) and return self._<family>[key]
LkReleaseReg(t) ==
    /\ lkPc[t] = "unlock_reg"
    /\ lkReg' = RegistryLockOnExit(t)
    /\ lkPc' = [lkPc EXCEPT ![t] = "lock_prim"]
    /\ UNCHANGED <<lkPrim, lkStored, lkVal, lkArg, lkSteps>>

\* inc / dec / observe: with self._lock:   (primitive, entry)
LkAcquirePrim(t) ==
    /\ lkPc[t] = "lock_prim"
    /\ lkPrim[lkArg[t]] = 0
    /\ lkPrim' = [lkPrim EXCEPT ![lkArg[t]] = t]
    /\ lkPc' = [lkPc EXCEPT ![t] = "update"]
    /\ UNCHANGED <<lkReg, lkStored, lkVal, lkArg, lkSteps>>

\* self._value += value and the like
LkUpdate(t) ==
    /\ lkPc[t] = "update"
    /\ lkVal' = [lkVal EXCEPT ![lkArg[t]] = @ + 1]
    /\ lkPc' = [lkPc EXCEPT ![t] = "unlock_prim"]
    /\ UNCHANGED <<lkReg, lkPrim, lkStored, lkArg, lkSteps>>

\* with self._lock:   (primitive, exit)
LkReleasePrim(t) ==
    /\ lkPc[t] = "unlock_prim"
    /\ lkPrim' = [lkPrim EXCEPT ![lkArg[t]] = 0]
    /\ lkPc' = [lkPc EXCEPT ![t] = "stepped"]
    /\ UNCHANGED <<lkReg, lkStored, lkVal, lkArg, lkSteps>>

\* the step was in_progress.inc(): response = await call_next(request)
LkAwait(t) ==
    /\ lkPc[t] = "stepped"
    /\ lkPc' = [lkPc EXCEPT ![t] = "awaiting"]
    /\ UNCHANGED <<lkReg, lkPrim, lkStored, lkVal, lkArg, lkSteps>>

\* the step was any other: the next statement of the caller
LkNext(t) ==
    /\ lkPc[t] = "stepped"
    /\ lkPc' = [lkPc EXCEPT ![t] = "idle"]
    /\ UNCHANGED <<lkReg, lkPrim, lkStored, lkVal, lkArg, lkSteps>>

\* downstream handling is over: the finally block starts
LkResume(t) ==
    /\ lkPc[t] = "awaiting"
    /\ lkPc' = [lkPc EXCEPT ![t] = "idle"]
    /\ UNCHANGED <<lkReg, lkPrim, lkStored, lkVal, lkArg, lkSteps>>

\* what thread t does inside a step it has started
LkInStep(t) ==
    \/ LkCheck(t)
    \/ LkAcquireReg(t)
    \/ LkCreate(t)
    \/ LkReleaseReg(t)
    \/ LkAcquirePrim(t)
    \/ LkUpdate(t)
    \/ LkReleasePrim(t)
    \/ LkAwait(t)
    \/ LkNext(t)

NextLocks ==
    \/ \E t \in Threads, s \in LockSeries : LkCall(t, s) /\ UNCHANGED notLockVars
    \/ \E t \in Threads : LkInStep(t) /\ UNCHANGED notLockVars
    \/ \E t \in Threads : LkResume(t) /\ UNCHANGED notLockVars

SpecLocks == Init /\ [][NextLocks]_vars
\* every thread that can run is run: a thread inside a step is not left
\* aside for ever
SpecLocksFair ==
    SpecLocks /\ \A t \in Threads : WF_vars(LkInStep(t) /\ UNCHANGED notLockVars)


\* ------------------ get_metrics_registry / reset_metrics_registry, by thread
\* get_metrics_registry takes no lock: the test, the store and the final
\* read of the table are steps other threads can come between
LookupCall(t, app_name) ==
    /\ gPc[t] = "idle"
    /\ gLookups < MaxLookups
    /\ gLookups' = gLookups + 1
    /\ gName' = [gName EXCEPT ![t] = app_name]
    /\ gPc' = [gPc EXCEPT ![t] = "test"]
    /\ UNCHANGED <<gTable, gRegs, gRef, gLog, gResets>>

\* if app_name not in _metrics_registries:
LookupTest(t) ==
    /\ gPc[t] = "test"
    /\ gPc' = [gPc EXCEPT ![t] = IF NotInTable(gTable, gName[t]) THEN "store" ELSE "return"]
    /\ UNCHANGED <<gTable, gRegs, gName, gRef, gLog, gLookups, gResets>>

\* _metrics_registries[app_name] = MetricsRegistry(app_name)
LookupStore(t) ==
    /\ gPc[t] = "store"
    /\ gRegs' = Append(gRegs, NewRegistry(gName[t]))
    /\ gTable' = Put(gTable, gName[t], Len(gRegs) + 1)
    /\ gPc' = [gPc EXCEPT ![t] = "return"]
    /\ UNCHANGED <<gName, gRef, gLog, gLookups, gResets>>

\* return _metrics_registries[app_name]
LookupReturn(t) ==
    /\ gPc[t] = "return"
    /\ gRef' = [gRef EXCEPT ![t] = At(gTable, gName[t])]
    /\ gLog' = Append(gLog, <<gName[t], At(gTable, gName[t])>>)
    /\ gPc' = [gPc EXCEPT ![t] = "holding"]
    /\ UNCHANGED <<gTable, gRegs, gName, gLookups, gResets>>

\* the caller records a request in the registry it was handed, as the
\* middleware does through self.registry
RecordThrough(t) ==
    /\ gPc[t] = "holding"
    /\ gRegs' = [gRegs EXCEPT ![gRef[t]] = RecordCount(@, "GET", <<"users">>, 200)]
    /\ gPc' = [gPc EXCEPT ![t] = "idle"]
    /\ UNCHANGED <<gTable, gName, gRef, gLog, gLookups, gResets>>

\* reset_metrics_registry, called by a test while no lookup is under way
ResetMetricsRegistry ==
    /\ gResets < MaxResets
    /\ \A t \in Threads : gPc[t] \in {"idle", "holding"}
    /\ gTable' = <<>>
    /\ gLog' = <<>>
    /\ gResets' = gResets + 1
    /\ UNCHANGED <<gRegs, gPc, gName, gRef, gLookups>>

NextTable ==
    \/ \E t \in Threads, n \in AppNames : LookupCall(t, n) /\ UNCHANGED notTableVars
    \/ \E t \in Threads : LookupTest(t) /\ UNCHANGED notTableVars
    \/ \E t \in Threads : LookupStore(t) /\ UNCHANGED notTableVars
    \/ \E t \in Threads : LookupReturn(t) /\ UNCHANGED notTableVars
    \/ \E t \in Threads : RecordThrough(t) /\ UNCHANGED notTableVars
    \/ ResetMetricsRegistry /\ UNCHANGED notTableVars

SpecTable == Init /\ [][NextTable]_vars


\* --------------------- an application with the middleware and the router
\* MetricsMiddleware.__init__: self.registry = get_metrics_registry(app_name)
MiddlewareInit(app_name) ==
    /\ sMw = 0
    /\ \E res \in {GetMetricsRegistry(gTable, gRegs, app_name)} :
        /\ gTable' = res.table
        /\ gRegs' = res.regs
        /\ sMw' = res.ref
    /\ UNCHANGED <<sHandled, sScrapes, sText, gPc, gName, gRef, gLog, gLookups, gResets>>

\* a request for a path that is not excluded goes through dispatch
HandleRequest(method, tmpl, status, duration) ==
    /\ sMw # 0
    /\ sHandled < MaxScrapeRequests
    /\ sHandled' = sHandled + 1
    /\ gRegs' = [gRegs EXCEPT ![sMw] = DispatchOn(@, method, tmpl, status, duration)]
    /\ UNCHANGED <<sMw, sScrapes, sText, gTable, gPc, gName, gRef, gLog, gLookups, gResets>>

\* GET of the metrics endpoint, which dispatch passes through: the route of
\* get_metrics_router answers registry = get_metrics_registry();
\* Response(content=registry.export())
Scrape ==
    /\ sMw # 0
    /\ sScrapes < MaxScrapes
    /\ sScrapes' = sScrapes + 1
    /\ \E res \in {GetMetricsRegistry(gTable, gRegs, DefaultAppName)} :
        /\ gTable' = res.table
        /\ gRegs' = res.regs
        /\ sText' = Export(res.regs[res.ref])
    /\ UNCHANGED <<sMw, sHandled, gPc, gName, gRef, gLog, gLookups, gResets>>

NextScrape ==
    \/ \E n \in AppNames : MiddlewareInit(n) /\ UNCHANGED notTableScrapeVars
    \/ \E st \in Statuses, d \in Durations :
          HandleRequest("GET", <<"users", "{id}">>, st, d) /\ UNCHANGED notTableScrapeVars
    \/ Scrape /\ UNCHANGED notTableScrapeVars

SpecScrape == Init /\ [][NextScrape]_vars


\* ------------------------------------------------------------------ claims
CounterQuiet == \A t \in Threads : cpc[t] = "idle"
HistQuiet == \A t \in Threads : hpc[t] = "idle"

\* C1: once the observe calls made on a fresh Histogram have returned,
\* get_bucket_counts() maps every boundary b to the number of observed
\* values v with v <= b.
C1_BucketCountsAreCumulative ==
    HistQuiet =>
        \A b \in BucketSet :
            BucketCountAt(GetBucketCounts(hist), b)
                = Cardinality({i \in DOMAIN hObs : hObs[i] <= b})

\* C2: when every inc call issued on a fresh Counter has returned, whatever
\* the interleaving of the threads, value is the sum of the amounts (1 for a
\* call without argument): no increment is lost.
C2_NoLostIncrement == CounterQuiet => ctrValue = SumSeq(cIssued)

\* two threads were inside inc at once and all MaxIncCalls calls, one of them
\* without argument, have returned
C2_Witness ==
    /\ CounterQuiet
    /\ Len(cIssued) = MaxIncCalls
    /\ \E i \in DOMAIN cIssued : cIssued[i] = 1
    /\ \E i \in DOMAIN cIssued : cIssued[i] # 1
    /\ ctrValue = SumSeq(cIssued)

\* C3: when the k observe calls issued on a fresh Histogram have returned,
\* whatever their interleaving, count is k and sum is the sum of the values;
\* negative values are counted like any other.
C3_CountAndSum ==
    HistQuiet => /\ hist.count = Len(hObs)
                 /\ hist.sum = SumSeq(hObs)

\* three observations, one of them negative, have been recorded
C3_Witness ==
    /\ HistQuiet
    /\ Len(hObs) = 3
    /\ \E i \in DOMAIN hObs : hObs[i] < 0
    /\ hist.count = 3

\* the dict of a family
FamilyDict(r, fam) ==
    CASE fam = FamCount -> r.count
      [] fam = FamLatency -> r.latency
      [] fam = FamInProgress -> r.inprogress
      [] fam = FamErrors -> r.errors

\* C4: any two accessor calls of one family with the same labels returned the
\* same primitive, calls with different labels returned distinct primitives
\* (request and error counters, which share a type, included), and the
\* primitive returned is the one the registry holds for the key, so a
\* mutation through any of them shows through all.
C4_AccessorsIdempotent ==
    /\ \A f \in Families : \A i, j \in DOMAIN held[f] :
          (held[f][i][1] = held[f][j][1]) <=> (held[f][i][2] = held[f][j][2])
    /\ \A f \in Families : \A i \in DOMAIN held[f] :
          /\ HasKey(FamilyDict(reg, f), held[f][i][1])
          /\ At(FamilyDict(reg, f), held[f][i][1]) = held[f][i][2]
    /\ HeldIn(FamCount) \cap HeldIn(FamErrors) = {}

\* one request counter was fetched twice and incremented in between, and a
\* counter with other labels was fetched too
C4_Witness ==
    \E i, j, k \in DOMAIN held[FamCount] :
        /\ i < j
        /\ held[FamCount][i] = held[FamCount][j]
        /\ reg.counters[held[FamCount][i][2]] = 1
        /\ held[FamCount][k][1] # held[FamCount][i][1]

\* the lines of an export that belong to a family, of one kind
LinesOfKind(out, r, fam, kind) ==
    SelectSeq(out, LAMBDA l : l.family = <<r.app_name, fam>> /\ l.kind = kind)
LinesOfFamily(out, r, fam) ==
    SelectSeq(out, LAMBDA l : l.family = <<r.app_name, fam>>)
\* the lines that are neither comment nor blank
SampleLines(out, r, fam) ==
    SelectSeq(out, LAMBDA l : /\ l.family = <<r.app_name, fam>>
                              /\ l.kind \notin {"help", "type", "blank"})

\* C5: in every registry state the export holds exactly one HELP and one TYPE
\* line for each family with at least one series (for app info: iff it was
\* set) and no line of a family without series; a fresh registry exports the
\* empty text.
C5_OneHeaderPerNonEmptyFamily ==
    LET out == Export(reg)
        Present(fam) == IF fam = FamAppInfo THEN reg.app_info # <<>>
                        ELSE FamilyDict(reg, fam) # <<>>
    IN  /\ \A fam \in Families \cup {FamAppInfo} :
              IF Present(fam)
              THEN /\ Len(LinesOfKind(out, reg, fam, "help")) = 1
                   /\ Len(LinesOfKind(out, reg, fam, "type")) = 1
              ELSE LinesOfFamily(out, reg, fam) = <<>>
        /\ \A i \in DOMAIN out :
              out[i].family[2] \in Families \cup {FamAppInfo}
        /\ (\A fam \in Families \cup {FamAppInfo} : ~Present(fam)) <=> out = <<>>

\* app info is set, request counters exist, no error counter exists
C5_Witness ==
    /\ reg.app_info # <<>>
    /\ reg.count # <<>>
    /\ reg.errors = <<>>
    /\ reg.latency # <<>>
    /\ Len(LinesOfKind(Export(reg), reg, FamCount, "help")) = 1

\* the value a scalar family holds for an item of its dict
ScalarValue(r, fam, it) ==
    IF fam = FamInProgress THEN r.gauges[it[2]] ELSE r.counters[it[2]]

\* one sample line per key of the family, with the primitive's value, in
\* strictly ascending order of the label tuple
OneLinePerKeyAscending(out, r, fam) ==
    LET ls == SampleLines(out, r, fam)
        d == FamilyDict(r, fam)
    IN  /\ Len(ls) = Len(d)
        /\ {ls[i].key : i \in DOMAIN ls} = Keys(d)
        /\ \A i \in DOMAIN ls : i < Len(ls) => KeyLess(fam, ls[i].key, ls[i + 1].key)
        /\ fam # FamLatency =>
              \A i \in DOMAIN ls : \E j \in DOMAIN d :
                  d[j][1] = ls[i].key /\ ls[i].value = ScalarValue(r, fam, d[j])

\* the registry with the items of every family's dict in the opposite order
RECURSIVE Reverse(_)
Reverse(s) == IF s = <<>> THEN <<>> ELSE Append(Reverse(Tail(s)), Head(s))
CreatedInReverse(r) ==
    [r EXCEPT !.count = Reverse(@), !.latency = Reverse(@),
              !.inprogress = Reverse(@), !.errors = Reverse(@)]

\* C6 as stated: in EACH family, the latency histograms included, the export
\* has exactly one sample line per label key, in ascending order of the key.
C6_OneSampleLinePerKeyInEveryFamily ==
    \A fam \in Families : OneLinePerKeyAscending(Export(reg), reg, fam)

\* C6, amended: in each counter and gauge family the export has exactly one
\* sample line per label key, carrying the primitive's current value, in
\* ascending lexicographic order of the label tuple; in the latency family it
\* has one run of lines per label key (its bucket, +Inf, _sum and _count
\* lines), the runs in ascending order of the label tuple; and the export is
\* the same whatever order the keys were created in.
C6_SamplesSortedByLabels ==
    LET out == Export(reg)
        hl == SampleLines(out, reg, FamLatency)
    IN  /\ \A fam \in Families \ {FamLatency} : OneLinePerKeyAscending(out, reg, fam)
        /\ {hl[i].key : i \in DOMAIN hl} = Keys(reg.latency)
        /\ \A i \in DOMAIN hl : i < Len(hl) =>
              \/ hl[i].key = hl[i + 1].key
              \/ KeyLess(FamLatency, hl[i].key, hl[i + 1].key)
        /\ \A k \in Keys(reg.latency) :
              Len(SelectSeq(hl, LAMBDA l : l.key = k /\ l.kind = "sum")) = 1
        /\ out = Export(CreatedInReverse(reg))

\* the counter of (GET, /users, 200) was created before the counter of
\* (GET, /items, 200), which sorts first, and was incremented
C6_Witness ==
    /\ Len(reg.count) >= 2
    /\ reg.count[1][1] = <<"GET", <<"users">>, 200>>
    /\ reg.count[2][1] = <<"GET", <<"items">>, 200>>
    /\ reg.counters[reg.count[1][2]] = 2
    /\ SampleLines(Export(reg), reg, FamCount)[2].value = 2

\* C7: for every latency histogram the export has, in this order, its bucket
\* lines by ascending boundary, the le="+Inf" line, the _sum line and the
\* _count line; the +Inf value is the histogram's observation count and
\* equals the value of the _count line.
C7_HistogramLinesInOrder ==
    LET out == Export(reg)
        n == Len(DefaultBuckets)
    IN  \A j \in DOMAIN reg.latency :
            LET k == reg.latency[j][1]
                h == reg.hists[reg.latency[j][2]]
                ls == SelectSeq(out, LAMBDA l : /\ l.family = <<reg.app_name, FamLatency>>
                                                /\ l.kind \notin {"help", "type", "blank"}
                                                /\ l.key = k)
            IN  /\ Len(ls) = n + 3
                /\ \A i \in 1..n : ls[i].kind = "bucket"
                /\ \A i \in 1..(n - 1) : ls[i].le < ls[i + 1].le
                /\ {ls[i].le : i \in 1..n} = BucketSet
                /\ ls[n + 1].kind = "inf"
                /\ ls[n + 2].kind = "sum"
                /\ ls[n + 3].kind = "count"
                /\ ls[n + 1].value = h.count
                /\ ls[n + 3].value = h.count
                /\ ls[n + 2].value = h.sum

\* a histogram with two observations, one above the last boundary, is exported
C7_Witness ==
    \E j \in DOMAIN reg.latency :
        /\ reg.hists[reg.latency[j][2]].count = 2
        /\ reg.hists[reg.latency[j][2]].counts[10000] = 1
        /\ Len(Export(reg)) = Len(DefaultBuckets) + 6

\* the request whose dispatch a step of the middleware ran
StepOf(i) == rq[i] # rq'[i]

\* the value of the counter or gauge a family holds for a key, 0 without one
ScalarAt(r, fam, k) ==
    IF HasKey(FamilyDict(r, fam), k)
    THEN ScalarValue(r, fam, <<k, At(FamilyDict(r, fam), k)>>) ELSE 0
\* the histogram of a key, a fresh one without one
HistAt(r, k) == IF HasKey(r.latency, k) THEN r.hists[At(r.latency, k)] ELSE NewHistogram

\* C8: a step of a request whose literal path is in the exclusion set leaves
\* the whole registry as it was, and the request ends with exactly what
\* downstream handling gave; a request of the same run whose path is not in
\* the set is recorded.
C8_ExcludedPathsLeaveRegistryAlone ==
    [][ \A i \in 1..MaxRequests :
          /\ (StepOf(i) /\ rq'[i].path \in ExcludePaths) => reg' = reg
          /\ (rq'[i].pc = "done" /\ rq'[i].path \in ExcludePaths) =>
                rq'[i].result = rq'[i].down
          /\ (rq'[i].pc = "done" /\ rq'[i].path \notin ExcludePaths) =>
                /\ HistAt(reg', <<rq'[i].method, rq'[i].tmpl>>).count >= 1
                /\ \E k \in Keys(reg'.count) :
                      k[1] = rq'[i].method /\ k[2] = rq'[i].tmpl
      ]_vars

\* GET /metrics was answered after a recorded request had finished, and the
\* registry holds only what that other request recorded
C8_Witness ==
    /\ rq[1].pc = "done" /\ rq[1].path \notin ExcludePaths
    /\ rq[2].pc = "done" /\ rq[2].path = <<"metrics">>
    /\ rq[2].result = ResponseOf(200)
    /\ Len(reg.count) = 1 /\ Len(reg.latency) = 1 /\ Len(reg.inprogress) = 1
    /\ reg.counters[reg.count[1][2]] = 1

\* C9: when downstream handling of a non-excluded request raises an exception
\* of type T, the exception that reaches the caller is that exception, the
\* request is counted under status 500 and the error counter labelled with
\* T's type name grows by exactly 1.
C9_RaisedExceptionCountedByTypeName ==
    [][ \A i \in 1..MaxRequests :
          (rq[i].pc = "awaiting" /\ rq'[i].pc = "done" /\ rq'[i].down.kind = "raise") =>
             LET m == rq[i].method
                 p == rq[i].tmpl
                 t == rq'[i].down.exc
             IN  /\ rq'[i].result = rq'[i].down
                 /\ ScalarAt(reg', FamCount, <<m, p, 500>>)
                       = ScalarAt(reg, FamCount, <<m, p, 500>>) + 1
                 /\ ScalarAt(reg', FamErrors, <<m, p, t>>)
                       = ScalarAt(reg, FamErrors, <<m, p, t>>) + 1
      ]_vars

\* the routes that fully match a request, and the first of them
FullMatches(method, path) ==
    {j \in DOMAIN AppRoutes : /\ PatternMatches(AppRoutes[j].pattern, path)
                              /\ method \in AppRoutes[j].methods}
FirstFullMatch(method, path) ==
    CHOOSE j \in FullMatches(method, path) : \A n \in FullMatches(method, path) : j <= n
\* the path label C10 names for a request
ClaimedPathLabel(method, path) ==
    IF FullMatches(method, path) = {} THEN path
    ELSE AppRoutes[FirstFullMatch(method, path)].pattern
\* the first fully matching route, if there is one, has a path pattern
HasPatternOrNoMatch(method, path) ==
    \/ FullMatches(method, path) = {}
    \/ AppRoutes[FirstFullMatch(method, path)].has_path

\* what a family holds for a key: whether it has the key, and the primitive
SeriesAt(r, fam, k) ==
    IF fam = FamLatency THEN <<HasKey(r.latency, k), HistAt(r, k)>>
    ELSE <<HasKey(FamilyDict(r, fam), k), ScalarAt(r, fam, k)>>

\* C10: every step of a non-excluded request touches only series whose method
\* label is the request's method and whose path label is the pattern of the
\* first registered route that fully matches method and path, or the literal
\* path when no route fully matches: entering dispatch raises that in-progress
\* gauge, finishing records the latency and the request count under that
\* label; so requests that differ only in the value of a path parameter
\* update the same series.
C10_KeyedByFirstFullMatch ==
    [][ \A i \in 1..MaxRequests :
          (/\ StepOf(i)
           /\ rq'[i].path \notin ExcludePaths
           /\ HasPatternOrNoMatch(rq'[i].method, rq'[i].path)) =>
             \A m \in {rq'[i].method} :
             \A p \in {ClaimedPathLabel(m, rq'[i].path)} :
                 /\ \A fam \in Families : \A k \in Keys(FamilyDict(reg', fam)) :
                       (k[1] # m \/ k[2] # p)
                          => SeriesAt(reg', fam, k) = SeriesAt(reg, fam, k)
                 /\ rq'[i].pc = "awaiting" =>
                       ScalarAt(reg', FamInProgress, <<m, p>>)
                          = ScalarAt(reg, FamInProgress, <<m, p>>) + 1
                 /\ rq'[i].pc = "done" =>
                       /\ HistAt(reg', <<m, p>>).count = HistAt(reg, <<m, p>>).count + 1
                       /\ \E st \in Statuses \cup {DefaultStatus} :
                             ScalarAt(reg', FamCount, <<m, p, st>>)
                                = ScalarAt(reg, FamCount, <<m, p, st>>) + 1
                       /\ ScalarAt(reg', FamInProgress, <<m, p>>)
                             = ScalarAt(reg, FamInProgress, <<m, p>>) - 1
      ]_vars

\* GET /users/1 and GET /users/2 both finished with 200 and share the series
\* of /users/{id}: one histogram with two observations, one counter at 2
C10_Witness ==
    /\ rq[1].pc = "done" /\ rq[1].method = "GET" /\ rq[1].path = <<"users", "1">>
    /\ rq[2].pc = "done" /\ rq[2].method = "GET" /\ rq[2].path = <<"users", "2">>
    /\ Len(reg.latency) = 1 /\ Len(reg.count) = 1
    /\ HistAt(reg, <<"GET", <<"users", "{id}">>>>).count = 2
    /\ ScalarAt(reg, FamCount, <<"GET", <<"users", "{id}">>, 200>>) = 2
\* the value a dict or list item carries, by position
ItemAt(h, a, i) == ItemValue(h[a].kind, h[a].items[i])

RECURSIVE TruncatedCopy(_, _, _, _, _)
TruncatedCopy(hi, vin, ho, vout, threshold) ==
    IF IsRef(vin)
    THEN /\ IsRef(vout)
         /\ ho[vout[3]].kind = hi[vin[3]].kind
         /\ Len(ho[vout[3]].items) = Len(hi[vin[3]].items)
         /\ \A i \in DOMAIN hi[vin[3]].items :
               /\ hi[vin[3]].kind = "dict" =>
                     ho[vout[3]].items[i][1] = hi[vin[3]].items[i][1]
               /\ TruncatedCopy(hi, ItemAt(hi, vin[3], i), ho, ItemAt(ho, vout[3], i), threshold)
    ELSE IF IsStr(vin)
    THEN vout = (IF StrLen(vin) > threshold THEN TruncatedMarker ELSE vin)
    ELSE vout = vin

\* C11: the value truncate_strings_in_structure returns has the shape of its
\* argument at every depth: the same kind of container, the same keys in
\* the same order, the same number of items in the same order; a string
\* longer than the threshold has become "[[truncated]]", and a string of at
\* most the threshold's length and every int, bool and None are the
\* argument's.
C11_TruncatesExactlyTheLongStrings ==
    tpc = "done" => TruncatedCopy(tBefore, tArg[1], tHeap, tResult, tArg[2])

\* a list holding a dict whose long key carries a long string, truncated
\* under the default threshold
C11_Witness ==
    /\ tpc = "done" /\ tArg[2] = DefaultThreshold /\ IsRef(tArg[1])
    /\ tBefore[tArg[1][3]].kind = "list"
    /\ tBefore[tArg[1][3]].items = <<RefVal(1)>>
    /\ tBefore[1] = NewContainer("dict", <<<<<<"K", 2001>>, StrVal("x", 2001)>>>>)
    /\ IsRef(ItemAt(tHeap, tResult[3], 1))
    /\ tHeap[ItemAt(tHeap, tResult[3], 1)[3]].items = <<<<<<"K", 2001>>, TruncatedMarker>>>>

RECURSIVE ContainersOf(_, _)
ContainersOf(h, v) ==
    IF IsRef(v)
    THEN {v[3]} \cup UNION {ContainersOf(h, ItemAt(h, v[3], i)) : i \in DOMAIN h[v[3]].items}
    ELSE {}

\* C12: after truncate_strings_in_structure returns, every container of its
\* argument holds what it held when the call was made, and no container
\* reachable from the returned value is a container that existed before
\* the call.
C12_InputUntouchedResultNew ==
    tpc = "done" =>
        /\ \A a \in DOMAIN tBefore : tHeap[a] = tBefore[a]
        /\ ContainersOf(tHeap, tResult) \cap DOMAIN tBefore = {}

\* a dict inside a list with nothing to truncate: the result is equal in
\* content and made of two new containers
C12_Witness ==
    /\ tpc = "done" /\ tArg[2] = DefaultThreshold /\ tArg[1] = RefVal(2)
    /\ tBefore[2] = NewContainer("list", <<RefVal(1)>>)
    /\ tBefore[1] = NewContainer("dict", <<<<<<"k", 1>>, StrVal("x", 2000)>>>>)
    /\ tResult = RefVal(4)
    /\ tHeap[4] = NewContainer("list", <<RefVal(3)>>)
    /\ tHeap[3] = tBefore[1]

SaysTooLarge(response) ==
    response.content.template = "Request body too large. Max size: {} bytes"

\* C13: every HTTP request whose body is longer than max_size was answered
\* 413 with the "too large" text without the application being called,
\* with or without a Content-Length header, and every HTTP request whose
\* body is at most max_size long reached the application.
C13_OversizedBodyRejected ==
    \A i \in DOMAIN szLog :
        szLog[i].scope.type = "http" =>
            IF szLog[i].scope.body > szMax
            THEN /\ ~szLog[i].out.app
                 /\ szLog[i].out.response.status = 413
                 /\ SaysTooLarge(szLog[i].out.response)
            ELSE szLog[i].out.app

ArrivedOverHttps(request) ==
    \/ request.scheme = "https"
    \/ HeaderValue(request.headers, "x-forwarded-proto") = <<"value", <<"https">>>>

\* C14: with the middleware active (a stage other than dev, or dev with
\* enable_in_dev) and hsts_max_age > 0, a response carries
\* Strict-Transport-Security only if its request arrived over HTTPS, and
\* the response to a plain-HTTP request carries X-Frame-Options and
\* X-Content-Type-Options and no Strict-Transport-Security.
C14_HstsOnlyOverHttps ==
    ((secCfg.stage # "dev" \/ secCfg.enable_in_dev) /\ secCfg.hsts_max_age > 0) =>
        \A i \in DOMAIN secLog :
            /\ HasHeader(secLog[i].response.headers, "Strict-Transport-Security")
                  => ArrivedOverHttps(secLog[i].request)
            /\ ~ArrivedOverHttps(secLog[i].request) =>
                  /\ HasHeader(secLog[i].response.headers, "X-Frame-Options")
                  /\ HasHeader(secLog[i].response.headers, "X-Content-Type-Options")

RECURSIVE MaskedCopy(_, _, _, _, _)
\* vout (on heap ho) is vin (on heap hi) copied, with the value of every
\* dict key whose lower-cased name is in names replaced by the marker
MaskedCopy(hi, vin, ho, vout, names) ==
    IF IsRef(vin)
    THEN /\ IsRef(vout)
         /\ vout[3] \notin DOMAIN hi
         /\ ho[vout[3]].kind = hi[vin[3]].kind
         /\ Len(ho[vout[3]].items) = Len(hi[vin[3]].items)
         /\ \A i \in DOMAIN hi[vin[3]].items :
               IF hi[vin[3]].kind = "dict"
               THEN /\ ho[vout[3]].items[i][1] = hi[vin[3]].items[i][1]
                    /\ IF LowerName(hi[vin[3]].items[i][1]) \in names
                       THEN ho[vout[3]].items[i][2] = MaskedMarker
                       ELSE MaskedCopy(hi, hi[vin[3]].items[i][2], ho, ho[vout[3]].items[i][2], names)
               ELSE MaskedCopy(hi, hi[vin[3]].items[i], ho, ho[vout[3]].items[i], names)
    ELSE vout = vin

RECURSIVE ValuesIn(_, _)
\* every value found at any depth of v, v included
ValuesIn(h, v) ==
    {v} \cup (IF IsRef(v)
              THEN UNION {ValuesIn(h, ItemAt(h, v[3], i)) : i \in DOMAIN h[v[3]].items}
              ELSE {})
\* the values a dict at any depth of v stores under a key whose
\* lower-cased name is in names
StoredUnderSensitive(h, v, names) ==
    UNION {{h[w[3]].items[i][2] :
               i \in {j \in DOMAIN h[w[3]].items : LowerName(h[w[3]].items[j][1]) \in names}} :
           w \in {x \in ValuesIn(h, v) : IsRef(x) /\ h[x[3]].kind = "dict"}}

LowerNames(sensitive_fields) ==
    {LowerName(n) : n \in
        IF sensitive_fields = UseSettings
        THEN {DefaultSensitiveFields[i] : i \in DOMAIN DefaultSensitiveFields}
        ELSE {sensitive_fields[2][i] : i \in DOMAIN sensitive_fields[2]}}

RECURSIVE RunsOf(_)
\* each coroutine of the list called once, in list order, with the app
\* iff it declares a parameter, and returned before the next is called
RunsOf(fns) ==
    IF fns = <<>> THEN <<>>
    ELSE <<<<"call", Head(fns).name, IF Head(fns).params = 0 THEN "" ELSE "app">>,
           <<"return", Head(fns).name, "">>>> \o RunsOf(Tail(fns))
\* the history of a lifespan in which every coroutine returns
NominalLifespan(app) ==
    RunsOf(app.startup_coroutines)
        \o <<<<"yield", "", "">>, <<"resume", "", "">>>>
        \o (IF app.graceful_timeout > 0 THEN <<<<"sleep", "", "">>, <<"woken", "", "">>>> ELSE <<>>)
        \o RunsOf(app.shutdown_coroutines)
IsPrefix(s, t) == Len(s) <= Len(t) /\ SubSeq(t, 1, Len(s)) = s
\* the history without the raise that ended it
BeforeRaise(log) ==
    IF log # <<>> /\ log[Len(log)][1] = "raise" THEN SubSeq(log, 1, Len(log) - 1) ELSE log

C18_BuildReturnsConfiguredApp ==
    /\ \A i \in DOMAIN bldRet : bldRet[i] = BuilderId
    /\ bldPc = "built" =>
          /\ bldOut.raised = ""
          /\ bldOut.app.title = bld.title
          /\ bldOut.app.version = bld.version
          /\ \A i \in DOMAIN bld.routers : \A p \in bld.routers[i].router.paths :
                (bld.prefix_url \o bld.routers[i].prefix \o p) \in bldOut.app.routes

\* the primitives a family dict refers to
StoredRefs == UNION {{accDict[f][i][2] : i \in DOMAIN accDict[f]} : f \in Families}
UpdatesFor(fam, key) ==
    Cardinality({i \in DOMAIN accLog : accLog[i].fam = fam /\ accLog[i].key = key})

\* C19: whichever way the threads interleave on the first access to a key, a
\* family never gets a second primitive for it: every primitive constructed
\* is the one its dict entry refers to (no orphan), every caller is handed
\* the stored primitive of its key, and the stored primitive carries every
\* update the callers of that key made
C19_OnePrimitivePerKey ==
    /\ StoredRefs = DOMAIN accHeap
    /\ \A t \in Threads : accPc[t] = "holding" =>
           accRef[t] = At(accDict[accArg[t][1]], accArg[t][2])
    /\ \A i \in DOMAIN accLog : accLog[i].ref = At(accDict[accLog[i].fam], accLog[i].key)
    /\ \A f \in Families : \A i \in DOMAIN accDict[f] :
           /\ accHeap[accDict[f][i][2]].n = UpdatesFor(f, accDict[f][i][1])
           /\ \A j \in DOMAIN accDict[f] : accDict[f][j][1] = accDict[f][i][1] => j = i

\* two threads both found the same key missing without the lock, both went
\* through the lock, and both updates went into the one stored primitive
C19_Witness ==
    /\ \A t \in Threads : accSlow[t] /\ accPc[t] = "idle" /\ accArg[t] = accArg[1]
    /\ Len(accHeap) = 1
    /\ accHeap[1].n = NThreads


\* the events of frame i, in the order they happened
RECURSIVE EventsIn(_, _)
EventsIn(log, i) ==
    IF log = <<>> THEN <<>>
    ELSE IF Head(log)[1] = i THEN <<Head(log)[2]>> \o EventsIn(Tail(log), i)
    ELSE EventsIn(Tail(log), i)
\* the order the events of a non-excluded request are to come in
BookkeepingOrder(errorApplies) ==
    <<"gauge_inc", "downstream_invoked", "downstream_finished",
      "duration_observed", "request_counted">>
    \o (IF errorApplies THEN <<"error_counted">> ELSE <<>>)
    \o <<"gauge_dec", "delivered">>
ErrorApplies(f) ==
    \/ f.pending.kind = "raise"
    \/ f.pending.kind = "response" /\ f.pending.status >= 500
\* the frames whose gauge increment is not yet undone, per gauge
OpenOn(ref) ==
    Cardinality({i \in 1..MaxDispatches :
        /\ dFrames[i].gauge = ref
        /\ \E k \in DOMAIN dLog : dLog[k] = <<i, "gauge_inc">>
        /\ ~\E k \in DOMAIN dLog : dLog[k] = <<i, "gauge_dec">>})

\* C20: for every request whose path is not excluded, whether downstream
\* answers or raises, what has happened so far is an initial part of: gauge
\* incremented, downstream invoked, downstream finished, duration observed,
\* request counted, error counted (when the request failed), gauge
\* decremented, outcome delivered; a finished request went through all of
\* it, its caller holds what downstream produced, and each gauge shows the
\* requests between their increment and their decrement
C20_BookkeepingOrder ==
    /\ \A i \in 1..MaxDispatches :
          dFrames[i].pc \notin {"new", "passthrough"} /\ ~IsExcluded(dFrames[i].path) =>
             /\ IsPrefix(EventsIn(dLog, i), BookkeepingOrder(ErrorApplies(dFrames[i])))
             /\ dFrames[i].pc = "done" =>
                   /\ EventsIn(dLog, i) = BookkeepingOrder(ErrorApplies(dFrames[i]))
                   /\ dFrames[i].result = dFrames[i].pending
             /\ dFrames[i].pc # "done" => dFrames[i].result = NoOutcome
    /\ \A ref \in DOMAIN dReg.gauges : dReg.gauges[ref] = OpenOn(ref)

\* two requests for the same route overlapped, one answered 200 and one
\* raised, and both went through their whole bookkeeping
C20_Witness ==
    /\ dArrived = 2
    /\ dFrames[1].pc = "done" /\ dFrames[2].pc = "done"
    /\ dFrames[1].result.kind = "raise" /\ dFrames[2].result = ResponseOf(200)
    /\ dFrames[1].gauge = dFrames[2].gauge /\ dFrames[1].gauge # 0
    /\ \E k \in DOMAIN dLog : dLog[k] = <<2, "gauge_inc">> /\
          \E m \in DOMAIN dLog : m > k /\ dLog[m] = <<1, "downstream_finished">>


\* the labels an error counter can carry in a run
ErrorLabels == ExcTypes \cup {"http_5xx"}
\* the sum of the error counters of every key other than <<m, p, l>>
ErrorsElsewhere(r, m, p, l) ==
    SumSeq([j \in DOMAIN r.errors |->
               IF r.errors[j][1] = <<m, p, l>> THEN 0 ELSE r.counters[r.errors[j][2]]])

\* C21: the step that finishes a non-excluded request raises an error counter
\* exactly when downstream raised or the final status is 500 or more; it then
\* raises one error counter by 1, the one labelled with the exception's type
\* name when downstream raised and the one labelled http_5xx otherwise, and
\* leaves every other error counter alone; a request that ends below 500
\* without an exception leaves all error counters alone.
C21_ErrorCountedOnceUnderItsLabel ==
    [][ \A i \in 1..MaxRequests :
          (rq[i].pc = "awaiting" /\ rq'[i].pc = "done") =>
             \A m \in {rq[i].method} : \A p \in {rq[i].tmpl} : \A d \in {rq'[i].down} :
             \A l \in {IF d.kind = "raise" THEN d.exc ELSE "http_5xx"} :
                 /\ ErrorsElsewhere(reg', m, p, l) = ErrorsElsewhere(reg, m, p, l)
                 /\ ScalarAt(reg', FamErrors, <<m, p, l>>)
                       = ScalarAt(reg, FamErrors, <<m, p, l>>)
                         + (IF d.kind = "raise" \/ d.status >= 500 THEN 1 ELSE 0)
      ]_vars


\* the histogram after the observe calls numbered by S, and no others
RECURSIVE HistAfter(_, _)
HistAfter(obs, S) ==
    IF obs = <<>> THEN NewHistogram
    ELSE LET n == Len(obs)
             h == HistAfter(SubSeq(obs, 1, n - 1), S)
         IN  IF n \in S THEN HistObserve(h, obs[n]) ELSE h
\* what export writes for a histogram in state h
LinesOf(h) ==
    [buckets |-> GetBucketCounts(h), inf |-> h.count, sum |-> h.sum, count |-> h.count]

\* C22: when export has written the lines of a histogram while observe calls
\* were being made, there is a set of observe calls such that the bucket
\* lines, the +Inf line, _sum and _count are all those of the histogram with
\* exactly these calls recorded
C22_ExportNeverTorn ==
    xpc = "done" => \E S \in SUBSET DOMAIN hObs : xOut = LinesOf(HistAfter(hObs, S))


\* the series of the family dicts d
AllSeries(d) == UNION {{<<f, d[f][i][1]>> : i \in DOMAIN d[f]} : f \in Families}
Exported == {eOut[i] : i \in DOMAIN eOut}

\* C23: an export that runs while label keys are being created goes through
\* to its return; what it wrote holds every series that existed when it was
\* called, each series once, and beyond those only series of keys created
\* since
C23_ExportBesideKeyCreation ==
    /\ ePc \in {"idle", "test", "items", "returned"}
    /\ ePc = "returned" =>
          /\ AllSeries(eBefore) \subseteq Exported
          /\ Exported \subseteq AllSeries(accDict)
          /\ Cardinality(Exported) = Len(eOut)

\* export returned with the series of a key that existed before the call,
\* and without the series of a key that was created during the call in a
\* family export had already passed
C23_Witness ==
    /\ ePc = "returned"
    /\ AllSeries(eBefore) # {}
    /\ \E s \in AllSeries(accDict) \ AllSeries(eBefore) : s \notin Exported


\* the locks thread t holds
HoldsRegistryLock(t) == lkReg = t
HoldsPrimitiveLock(t) == \E s \in LockSeries : lkPrim[s] = t
InsideStep(t) == lkPc[t] \notin {"idle", "awaiting"}

\* C24: no thread holds the registry lock and a primitive's lock together; a
\* thread that is between steps, or suspended at `await call_next`, holds no
\* lock at all; and, every runnable thread being run, a bookkeeping step that
\* was started comes to its end whatever the other threads do: no
\* interleaving blocks it for ever
C24_LocksNeverNestedStepsComplete ==
    /\ [](\A t \in Threads : ~(HoldsRegistryLock(t) /\ HoldsPrimitiveLock(t)))
    /\ [](\A t \in Threads : lkPc[t] \in {"idle", "awaiting", "stepped"} =>
             ~HoldsRegistryLock(t) /\ ~HoldsPrimitiveLock(t))
    /\ \A t \in Threads : InsideStep(t) ~> ~InsideStep(t)

\* one thread is creating a series under the registry lock while another
\* holds the lock of an existing primitive and has changed it; a first step
\* is already over
C24_Witness ==
    \E t, u \in Threads :
        /\ HoldsRegistryLock(t) /\ lkPc[t] = "unlock_reg"
        /\ HoldsPrimitiveLock(u) /\ lkPc[u] = "unlock_prim"
        /\ lkArg[t] # lkArg[u]


\* every entry of dict d is still in dict e, at its place, with its primitive
EntriesKept(d, e) == \A i \in DOMAIN d : i \in DOMAIN e /\ e[i] = d[i]

\* C25: in every step, each label key a registry's family holds stays in the
\* family bound to the same primitive, so the key sets only grow; and a
\* registry leaves the global table only in a step of reset_metrics_registry,
\* which empties the table
C25_KeysAndRegistriesStay ==
    [][ /\ \A id \in DOMAIN gRegs : \A fam \in Families :
               EntriesKept(FamilyDict(gRegs[id], fam), FamilyDict(gRegs'[id], fam))
        /\ IF gResets' = gResets
           THEN \A i \in DOMAIN gTable :
                   HasKey(gTable', gTable[i][1]) /\ At(gTable', gTable[i][1]) = gTable[i][2]
           ELSE gTable' = <<>>
      ]_vars

\* C28: of the get_metrics_registry calls that returned since the last reset,
\* any two with the same app name returned the same registry, and that
\* registry is the one the table holds for the name
C28_OneRegistryPerName ==
    \A i \in DOMAIN gLog :
        /\ HasKey(gTable, gLog[i][1]) /\ At(gTable, gLog[i][1]) = gLog[i][2]
        /\ \A j \in DOMAIN gLog : gLog[j][1] = gLog[i][1] => gLog[j][2] = gLog[i][2]


\* the requests that went through dispatch to the end for a pair
Completed(m, p) ==
    {i \in 1..MaxDispatches : /\ dFrames[i].pc = "done"
                              /\ ~IsExcluded(dFrames[i].path)
                              /\ dFrames[i].method = m /\ dFrames[i].tmpl = p}
\* the sum of the counters a family dict holds for a pair, over the third label
PairTotal(r, d, m, p) ==
    SumSeq([j \in DOMAIN d |->
               IF d[j][1][1] = m /\ d[j][1][2] = p THEN r.counters[d[j][2]] ELSE 0])
\* the pairs a run has touched
PairsSeen ==
    {<<dFrames[i].method, dFrames[i].tmpl>> : i \in {j \in 1..MaxDispatches :
         dFrames[j].pc # "new" /\ ~IsExcluded(dFrames[j].path)}}
NoneInFlight == \A i \in 1..MaxDispatches : dFrames[i].pc \in {"new", "done"}

\* C26: while no request is inside dispatch, for every pair of method and
\* path template the count of its latency histogram, the sum of its request
\* counters over all statuses and the number of requests completed for it
\* are equal, the sum of its error counters is no more than that number, and
\* the registry holds no series of any other pair
C26_OneObservationOneCountPerRequest ==
    NoneInFlight =>
        /\ \A pr \in PairsSeen : \A n \in {Cardinality(Completed(pr[1], pr[2]))} :
              /\ HistAt(dReg, pr).count = n
              /\ PairTotal(dReg, dReg.count, pr[1], pr[2]) = n
              /\ PairTotal(dReg, dReg.errors, pr[1], pr[2]) <= n
        /\ \A fam \in Families : \A k \in Keys(FamilyDict(dReg, fam)) :
              <<k[1], k[2]>> \in PairsSeen

\* no request is in flight after two requests of one pair, one answered 503
\* and one whose handler raised: two observations, two errors
C26_Witness ==
    /\ NoneInFlight
    /\ dArrived = 2
    /\ dFrames[1].result = ResponseOf(503)
    /\ dFrames[2].result.kind = "raise"
    /\ dFrames[1].method = dFrames[2].method /\ dFrames[1].tmpl = dFrames[2].tmpl
    /\ ~IsExcluded(dFrames[1].path)
    /\ HistAt(dReg, <<dFrames[1].method, dFrames[1].tmpl>>).count = 2
    /\ PairTotal(dReg, dReg.errors, dFrames[1].method, dFrames[1].tmpl) = 2

\* the requests of a pair that have raised its gauge and not yet lowered it
BetweenIncAndDec(m, p) ==
    {i \in 1..MaxDispatches :
        /\ dFrames[i].pc \in {"call_next", "awaiting", "observe", "count", "errors", "dec"}
        /\ dFrames[i].method = m /\ dFrames[i].tmpl = p}

\* C27: in every state, the in-progress gauge of each pair of method and path
\* template is the number of requests of the pair that have passed the
\* increment and not yet the decrement: so it is never negative, and it is 0
\* when no request is in flight, also after requests whose handler raised
C27_GaugeCountsRequestsInProgress ==
    /\ \A j \in DOMAIN dReg.inprogress : \A k \in {dReg.inprogress[j][1]} :
          /\ dReg.gauges[dReg.inprogress[j][2]] = Cardinality(BetweenIncAndDec(k[1], k[2]))
          /\ dReg.gauges[dReg.inprogress[j][2]] >= 0
          /\ NoneInFlight => dReg.gauges[dReg.inprogress[j][2]] = 0
    /\ \A i \in 1..MaxDispatches :
          dFrames[i].pc \in {"call_next", "awaiting", "observe", "count", "errors", "dec"}
             => HasKey(dReg.inprogress, <<dFrames[i].method, dFrames[i].tmpl>>)

\* two requests of one pair are suspended in downstream handling at once
\* and the gauge of the pair shows 2
C27_Witness ==
    /\ dFrames[1].pc = "awaiting" /\ dFrames[2].pc = "awaiting"
    /\ dFrames[1].gauge = dFrames[2].gauge
    /\ dReg.gauges[dFrames[1].gauge] = 2


\* the value of the sample lines of a family in a text
RECURSIVE SampleTotal(_, _)
SampleTotal(text, fam) ==
    IF text = <<>> THEN 0
    ELSE (IF Head(text).kind = "sample" /\ Head(text).family[2] = fam
          THEN Head(text).value ELSE 0) + SampleTotal(Tail(text), fam)

\* C29: whatever app_name the middleware was built with, each response of the
\* metrics endpoint is the export of the registry the middleware records
\* into, and its request counter lines add up to the requests the
\* middleware has handled before
C29_ScrapeShowsMiddlewareRegistry ==
    [][ sScrapes' # sScrapes =>
           /\ sText' = Export(gRegs'[sMw])
           /\ SampleTotal(sText', FamCount) = sHandled
      ]_vars


====
